---- MODULE Spec2Model ----
(***************************************************************************)
(* Citation validation pipeline of the paper-index VS Code extension:     *)
(* the Validator orchestrator (validateCitation, validateDocument,        *)
(* validateDocumentWithConcurrencyLimit), the TTL cache it shares with    *)
(* the paper-index adapter, and the adapter lookups it fans out to.       *)
(*                                                                         *)
(* JavaScript runs one continuation at a time.  Every action below is one *)
(* such continuation: the code that runs from the resumption of an await  *)
(* up to the next await.  External calls (CLI commands, Bedrock calls,    *)
(* file reads) are in flight between two actions.                         *)
(***************************************************************************)
EXTENDS Integers, Sequences, FiniteSets, TLC

VARIABLES
    citations,        \* the Citation[] handed to the document validation
    paragraphs,       \* the Paragraph[] handed to the document validation
    mode,             \* "all": validateDocument, "bounded": ...WithConcurrencyLimit
    concurrencyLimit, \* the limit argument of the bounded variant
    progress,         \* TRUE when a progress reporter was passed
    docpc,            \* position of the document validation
    batchStart,       \* loop variable i of the bounded variant (0-based)
    batches,          \* sizes of the batches started so far, in order
    tasks,            \* one record per citation: its per-citation validation
    results,          \* the result array being assembled (<<>> is a hole)
    completed,        \* the running counter of the document validation
    reports,          \* the progress.report calls made, in order
    cache,            \* CacheService.cache: key -> [value, expiresAt]
    now,              \* Date.now()
    ttlMs,            \* CacheService.ttlMs
    corpus,           \* the external paper-index corpus: key -> entry or none
    lookups,          \* the getPaper calls made directly on the adapter
    call,             \* a pure function under test and its arguments
    ret,              \* what that function returned or threw, once it has
    cacheInstance,    \* the CacheService singleton and how many were constructed
    lastSet,          \* per key, the most recent set call made on the cache
    serviceInstance,  \* the BedrockService singleton
    config,           \* the extension settings read by getConfig
    faults            \* the collaborators that fail in this run

vars == <<citations, paragraphs, mode, concurrencyLimit, progress, docpc,
          batchStart, batches, tasks, results, completed, reports, cache,
          now, ttlMs, corpus, lookups, call, ret, cacheInstance, lastSet,
          serviceInstance, config, faults>>

\* the variables of a document validation
docVars == <<citations, paragraphs, mode, concurrencyLimit, progress, docpc,
             batchStart, batches, tasks, results, completed, reports>>

(***************************************************************************)
(* Bounds of the model.                                                    *)
(***************************************************************************)
MaxCitations == 3      \* citations of a document validated in batches
MaxInFlight == 2       \* validations in flight at the same time
MaxSeqCitations == 2   \* citations validated one after the other
MaxInteriorLen == 4    \* characters between the brackets of a bracket citation
MaxCollideCitations == 2   \* citations of the document with colliding paragraphs
MaxTtlCitations == 2   \* validations of one claim while time passes
MaxTime == 2           \* clock ticks
MaxLookups == 2        \* getPaper calls in flight at the same time
MaxFragments == 2      \* fragments in one list handed to an aggregation
MaxOracleCitations == 2 \* citations validated against the unparsed oracle
MaxDocLen == 6         \* characters of a document searched for citations
MaxLines == 4          \* lines of a document cut into paragraphs
MaxCacheInstances == 2 \* CacheService singletons constructed in a run
MaxClearCitations == 2 \* validations around a clearing of the cache
MaxDegradeCitations == 1 \* validations with failing collaborators
MaxBedrockCitations == 2 \* validations while the settings change
MaxLiveCitations == 2  \* citations of a document validated to the end
MaxEquivCitations == 2 \* citations of a document given to both drivers
MaxAdapterCalls == 3   \* lookups made directly on the adapter
MaxLimitCitations == 2 \* citations validated under an arbitrary limit
MaxBatches == 4        \* passes of the batch loop followed
MaxAssociateLines == 3 \* lines of a document whose citations are attached

(***************************************************************************)
(* Optional values: undefined is the empty sequence.                       *)
(***************************************************************************)
None == <<>>
Some(v) == <<v>>
IsSome(o) == o # <<>>
Val(o) == o[1]

Range(s) == {s[x] : x \in DOMAIN s}
Min(a, b) == IF a < b THEN a ELSE b
Max(a, b) == IF a > b THEN a ELSE b

(***************************************************************************)
(* hashText: the 32-bit string hash used in cache keys.  A text is the    *)
(* sequence of its UTF-16 code units.                                      *)
(***************************************************************************)
\* one round of the loop, hash = ((hash << 5) - hash + char) & itself, that
\* is hash * 31 + char wrapped to a signed 32-bit integer; computed on the
\* 16-bit halves of the two's complement form
HashRound(hash, char) ==
    LET lo == hash % 65536
        hi == (hash \div 65536) % 65536
        lo31 == lo * 31 + char
        hi31 == hi * 31 + (lo31 \div 65536)
        rlo == lo31 % 65536
        rhi == hi31 % 65536
    IN (IF rhi >= 32768 THEN rhi - 65536 ELSE rhi) * 65536 + rlo

RECURSIVE Base36Digits(_)
Base36Digits(n) ==
    IF n < 36 THEN <<n>> ELSE Append(Base36Digits(n \div 36), n % 36)

\* Number.prototype.toString(36): a sign followed by the base-36 digits
ToString36(n) ==
    IF n < 0 THEN <<"-">> \o Base36Digits(0 - n) ELSE Base36Digits(n)

RECURSIVE HashLoop(_, _, _)
HashLoop(text, pos, hash) ==
    IF pos > Len(text) THEN hash
    ELSE HashLoop(text, pos + 1, HashRound(hash, text[pos]))

hashText(text) == ToString36(HashLoop(text, 1, 0))

(***************************************************************************)
(* Input domain.                                                           *)
(***************************************************************************)
Keys == {"k1", "k2"}
TextAa == <<65, 97>>      \* "Aa"
TextC == <<67>>          \* "C"

\* a vscode.Range as a pair of offsets; Range.contains
RangeContains(outer, inner) ==
    outer.start <= inner.start /\ inner.end <= outer.end

MkParagraph(text, s, e) == [text |-> text, range |-> [start |-> s, end |-> e]]
MkCitation(key, s, e, pageRef) ==
    [key |-> key, range |-> [start |-> s, end |-> e], pageRef |-> pageRef,
     type |-> IF IsSome(pageRef) THEN "bracket" ELSE "inline"]

\* the document layout used by the model: two paragraphs, and citations
\* inside the first, inside the second, or straddling the gap (orphans)
DocParagraphs == << MkParagraph(TextAa, 0, 9), MkParagraph(TextC, 20, 29) >>

InFirst(key, pageRef) == MkCitation(key, 2, 4, pageRef)
InSecond(key, pageRef) == MkCitation(key, 22, 24, pageRef)
Orphan(key, pageRef) == MkCitation(key, 8, 12, pageRef)
\* a second occurrence in the first paragraph
InFirstAgain(key, pageRef) == MkCitation(key, 5, 7, pageRef)

\* paragraphs.find((p) => p.range.contains(citation.range))
RECURSIVE FindFrom(_, _, _)
FindFrom(ps, citation, pos) ==
    IF pos > Len(ps) THEN None
    ELSE IF RangeContains(ps[pos].range, citation.range) THEN Some(ps[pos])
    ELSE FindFrom(ps, citation, pos + 1)

FindParagraph(ps, citation) == FindFrom(ps, citation, 1)

(***************************************************************************)
(* CacheService                                                            *)
(***************************************************************************)
CacheGetExpiresEarly(c, t, key) ==
    IF key \notin DOMAIN c THEN None
    ELSE IF t >= c[key].expiresAt THEN None
    ELSE Some(c[key].value)

\* CacheService.get: the value returned
CacheGet(c, t, key) ==
    IF key \notin DOMAIN c THEN None
    ELSE IF t > c[key].expiresAt THEN None
    ELSE Some(c[key].value)

\* CacheService.get: the map afterwards (an expired entry is deleted)
CacheAfterGet(c, t, key) ==
    IF key \in DOMAIN c /\ t > c[key].expiresAt
    THEN [x \in DOMAIN c \ {key} |-> c[x]]
    ELSE c

CacheSetIfAbsent(c, t, ttl, key, value) ==
    [x \in DOMAIN c \cup {key} |->
        IF x = key /\ key \notin DOMAIN c
        THEN [value |-> value, expiresAt |-> t + ttl] ELSE c[x]]

\* CacheService.set
CacheSet(c, t, ttl, key, value) ==
    [x \in DOMAIN c \cup {key} |->
        IF x = key THEN [value |-> value, expiresAt |-> t + ttl] ELSE c[x]]

EmptyCache == [x \in {} |-> None]

\* CacheService.has
has(c, t, key) == IsSome(CacheGet(c, t, key))

\* CacheService.delete: the map afterwards
CacheDelete(c, key) == [x \in DOMAIN c \ {key} |-> c[x]]

CacheClearNothing(c) == c

\* CacheService.clear: the map afterwards
CacheClear(c) == EmptyCache

\* CacheService.prune: the map afterwards
CachePrune(c, t) == [x \in {k \in DOMAIN c : ~(t > c[k].expiresAt)} |-> c[x]]

\* CacheService.stats
stats(c, ttl) == [size |-> Cardinality(DOMAIN c), ttlMs |-> ttl]

\* constructor(ttlSeconds = 300)
NewTtlMs(ttlSeconds) == (IF IsSome(ttlSeconds) THEN Val(ttlSeconds) ELSE 300) * 1000

setTTLKeepsOld(ttl, ttlSeconds) == ttl

\* CacheService.setTTL: the new ttlMs
setTTL(ttl, ttlSeconds) == ttlSeconds * 1000

ValidationKey(citation, paragraph) == <<"validation", citation.key, hashText(paragraph.text)>>
EntryKey(id) == <<"entry", id>>
QuotesKey(id) == <<"quotes", id>>
FileContentKey(id) == <<"filecontent", id>>
QueryKey(id, keyword) == <<"query", id, keyword>>
SemanticKey(id, text) == <<"semantic", id, hashText(text)>>

(***************************************************************************)
(* The external collaborators: the paper-index CLI, the keyword model and  *)
(* the reasoning oracle.                                                   *)
(***************************************************************************)
ENTRY_TYPES == <<"paper", "book", "media">>

\* executeCommand([entryType, 'show', id, ...]): resolves when the corpus
\* holds the entry under that category, rejects otherwise
ShowSucceeds(corp, entryType, id) ==
    IsSome(corp[id]) /\ Val(corp[id]).entryType = entryType

PaperOf(corp, id) ==
    [id |-> id, entryType |-> Val(corp[id]).entryType,
     file_path_markdown |-> Val(corp[id]).hasFile]

\* the probing loop of getPaper: the first category that answers
RECURSIVE ProbePaperFrom(_, _, _)
ProbePaperFrom(corp, id, pos) ==
    IF pos > Len(ENTRY_TYPES) THEN None
    ELSE IF ShowSucceeds(corp, ENTRY_TYPES[pos], id) THEN Some(PaperOf(corp, id))
    ELSE ProbePaperFrom(corp, id, pos + 1)

ProbePaper(corp, id) == ProbePaperFrom(corp, id, 1)

\* the probing loop of getQuotes
CorpusQuotes(id) == << [text |-> <<"quote-1", id>>, page |-> 1],
                      [text |-> <<"quote-2", id>>, page |-> 2] >>

RECURSIVE ProbeQuotesFrom(_, _, _)
ProbeQuotesFrom(corp, id, pos) ==
    IF pos > Len(ENTRY_TYPES) THEN None
    ELSE IF ShowSucceeds(corp, ENTRY_TYPES[pos], id) THEN Some(CorpusQuotes(id))
    ELSE ProbeQuotesFrom(corp, id, pos + 1)

ProbeQuotes(corp, id) == ProbeQuotesFrom(corp, id, 1)

\* what the keyword model may answer; a failed call gives two empty lists
KeywordOutcomes ==
    { [english |-> <<>>, dutch |-> <<>>],
      [english |-> <<"learning">>, dutch |-> <<>>],
      [english |-> <<>>, dutch |-> <<"leren">>] }

Frag(lineStart, src) == [line_start |-> lineStart, line_end |-> lineStart + 3, src |-> src]

\* fragments the corpus returns for a keyword query and for a semantic query
KeywordHits(keyword) ==
    IF keyword = "learning" THEN << Frag(5, "learning"), Frag(10, "learning") >>
    ELSE << Frag(10, "leren"), Frag(7, "leren") >>

SemanticHits == << Frag(10, "semantic"), Frag(2, "semantic") >>

\* what bedrockService.validateCitation may do: resolve with a parsed
\* response, or reject with an Error carrying a message
OracleOutcomes ==
    { [ok |-> TRUE, status |-> "supported", confidence |-> 90,
       explanation |-> <<"evidence found">>, supportingQuoteIndices |-> Some(<<2, 1>>),
       rephrase |-> Some("tighter wording"), tokenUsage |-> None],
      [ok |-> TRUE, status |-> "partial", confidence |-> 50,
       explanation |-> <<"weak evidence">>, supportingQuoteIndices |-> Some(<<1, 3>>),
       rephrase |-> None, tokenUsage |-> None],
      [ok |-> TRUE, status |-> "not_supported", confidence |-> 100,
       explanation |-> <<"off topic">>, supportingQuoteIndices |-> None,
       rephrase |-> None, tokenUsage |-> None],
      [ok |-> FALSE, message |-> "No JSON found in response"],
      [ok |-> FALSE, message |-> "Unexpected response format from Bedrock"] }

(***************************************************************************)
(* The response text of the oracle and its parser.  A text is a sequence   *)
(* of tokens: a run of prose without braces, an opening brace, a closing   *)
(* brace, or the member list of a serialized object.  Confidence is in     *)
(* hundredths, so the interval [0, 1] is 0..100.                           *)
(***************************************************************************)
Prose(s) == <<"prose", s>>
LBrace == <<"{">>
RBrace == <<"}">>
Members(json) == <<"members", json>>

\* an object without any of the properties the parser reads
EmptyObject ==
    [status |-> None, confidence |-> None, explanation |-> None,
     supportingQuoteIndices |-> None, rephrase |-> None, tokenUsage |-> None]

\* JSON.stringify: a property that is undefined is left out, a NaN becomes
\* null, an object without properties is a pair of braces
JsonStringify(x) ==
    LET json == [x EXCEPT !.confidence =
                    IF IsSome(@) /\ Val(@).type = "NaN"
                    THEN Some([type |-> "null", n |-> 0]) ELSE @]
    IN IF json = EmptyObject THEN <<LBrace, RBrace>>
       ELSE <<LBrace, Members(json), RBrace>>

\* prefix + JSON.stringify(object) + suffix, or prefix + suffix without an object
ResponseText(prefix, object, suffix) ==
    prefix \o (IF IsSome(object) THEN JsonStringify(Val(object)) ELSE <<>>) \o suffix

\* response.match(/\{[\s\S]*\}/): from the first opening brace to the last
\* closing brace after it
RegexMatch(response) ==
    LET opens == {x \in DOMAIN response : response[x] = LBrace}
        first == CHOOSE x \in opens : \A y \in opens : x <= y
        closes == {x \in DOMAIN response : response[x] = RBrace /\ x > first}
        last == CHOOSE x \in closes : \A y \in closes : x >= y
    IN IF opens = {} \/ closes = {} THEN None
       ELSE Some(SubSeq(response, first, last))

\* JSON.parse of the matched text: the object, or a SyntaxError
JsonParse(text) ==
    IF text = <<LBrace, RBrace>> THEN [ok |-> TRUE, value |-> EmptyObject]
    ELSE IF Len(text) = 3 /\ text[1] = LBrace /\ text[3] = RBrace
            /\ text[2][1] = "members"
         THEN [ok |-> TRUE, value |-> text[2][2]]
         ELSE [ok |-> FALSE, value |-> EmptyObject]

Throw(message) == [ok |-> FALSE, message |-> message]

\* `Invalid status value: ${parsed.status}`
InvalidStatusMessage(status) ==
    CASE status = "maybe" -> "Invalid status value: maybe"
      [] OTHER -> "Invalid status value: "

ClampUpperOnly(confidence) == Min(100, confidence)

\* Math.max(0, Math.min(1, parsed.confidence))
Clamp(confidence) == Max(0, Min(100, confidence))

parseValidationResponse(response) ==
    LET jsonMatch == RegexMatch(response)
        json == JsonParse(Val(jsonMatch))
        parsed == json.value
    IN IF ~IsSome(jsonMatch) THEN Throw("No JSON found in response")
       ELSE IF ~json.ok THEN Throw("Unexpected token in JSON")
       ELSE IF \/ ~IsSome(parsed.status) \/ Val(parsed.status) = ""
               \/ ~IsSome(parsed.confidence) \/ Val(parsed.confidence).type # "number"
               \/ ~IsSome(parsed.explanation) \/ Val(parsed.explanation) = <<>>
            THEN Throw("Invalid response format: missing required fields")
       ELSE IF Val(parsed.status) \notin {"supported", "partial", "not_supported"}
            THEN Throw(InvalidStatusMessage(Val(parsed.status)))
       ELSE [ok |-> TRUE,
             status |-> Val(parsed.status),
             confidence |-> Clamp(Val(parsed.confidence).n),
             explanation |-> Val(parsed.explanation),
             supportingQuoteIndices |-> parsed.supportingQuoteIndices,
             rephrase |-> parsed.rephrase,
             tokenUsage |-> None]

\* the default of the paperIndex.bedrock.model setting.  A model identifier
\* is the sequence of its segments, cut where the pricing keys begin and end.
ModelId == <<"global.", "anthropic.", "claude-", "sonnet", "-4-20250514-v1:0">>

(***************************************************************************)
(* The cost model.  Amounts are in millionths of a dollar, so that         *)
(* tokens / 1_000_000 * rate is the integer tokens * rate.                 *)
(***************************************************************************)
\* Object.entries(MODEL_PRICING), in insertion order
MODEL_PRICING ==
    << [key |-> <<"claude-", "opus">>, input |-> 5, output |-> 25],
       [key |-> <<"anthropic.", "claude-", "opus">>, input |-> 5, output |-> 25],
       [key |-> <<"claude-", "sonnet">>, input |-> 3, output |-> 15],
       [key |-> <<"anthropic.", "claude-", "sonnet">>, input |-> 3, output |-> 15],
       [key |-> <<"claude-", "haiku">>, input |-> 1, output |-> 5],
       [key |-> <<"anthropic.", "claude-", "haiku">>, input |-> 1, output |-> 5] >>

\* String.prototype.toLowerCase, segment by segment
ToLowerCase(modelId) ==
    [x \in DOMAIN modelId |->
        CASE modelId[x] = "Anthropic." -> "anthropic."
          [] modelId[x] = "Claude-" -> "claude-"
          [] modelId[x] = "Opus" -> "opus"
          [] modelId[x] = "HAIKU" -> "haiku"
          [] OTHER -> modelId[x]]

\* String.prototype.includes
Includes(text, key) ==
    \E at \in 0..(Len(text) - Len(key)) :
        \A x \in 1..Len(key) : text[at + x] = key[x]

\* the loop over the pricing table: the first key the identifier contains,
\* the Sonnet rates when it contains none
RECURSIVE PricingFrom(_, _)
PricingFrom(modelIdLower, pos) ==
    IF pos > Len(MODEL_PRICING) THEN [input |-> 3, output |-> 15]
    ELSE IF Includes(modelIdLower, MODEL_PRICING[pos].key)
         THEN [input |-> MODEL_PRICING[pos].input, output |-> MODEL_PRICING[pos].output]
         ELSE PricingFrom(modelIdLower, pos + 1)

calculateCost(tokenUsage, modelId) ==
    LET pricing == PricingFrom(ToLowerCase(modelId), 1)
        inputCost == tokenUsage.inputTokens * pricing.input
        outputCost == tokenUsage.outputTokens * pricing.output
    IN inputCost + outputCost

(***************************************************************************)
(* Fragment aggregation                                                    *)
(***************************************************************************)
RECURSIVE DedupFromKeepsLast(_, _, _, _)
DedupFromKeepsLast(frs, pos, seen, acc) ==
    IF pos > Len(frs) THEN acc
    ELSE IF frs[pos].line_start \in seen
         THEN DedupFromKeepsLast(frs, pos + 1, seen,
                  [x \in DOMAIN acc |->
                      IF acc[x].line_start = frs[pos].line_start THEN frs[pos] ELSE acc[x]])
         ELSE DedupFromKeepsLast(frs, pos + 1, seen \cup {frs[pos].line_start},
                                 Append(acc, frs[pos]))

\* the seenLineStarts loop: keep the first fragment of every line_start
RECURSIVE DedupFrom(_, _, _, _)
DedupFrom(frs, pos, seen, acc) ==
    IF pos > Len(frs) THEN acc
    ELSE IF frs[pos].line_start \in seen
         THEN DedupFrom(frs, pos + 1, seen, acc)
         ELSE DedupFrom(frs, pos + 1, seen \cup {frs[pos].line_start},
                        Append(acc, frs[pos]))

\* Array.prototype.sort((a, b) => a.line_start - b.line_start), stable
RECURSIVE InsertSorted(_, _)
InsertSorted(sorted, f) ==
    IF sorted = <<>> THEN <<f>>
    ELSE IF sorted[Len(sorted)].line_start <= f.line_start THEN Append(sorted, f)
    ELSE Append(InsertSorted(SubSeq(sorted, 1, Len(sorted) - 1), f), sorted[Len(sorted)])

RECURSIVE SortFrom(_, _, _)
SortFrom(frs, pos, acc) ==
    IF pos > Len(frs) THEN acc
    ELSE SortFrom(frs, pos + 1, InsertSorted(acc, frs[pos]))

SortByLineStart(frs) == SortFrom(frs, 1, <<>>)

\* validateCitation: combinedFragments
CombineFragments(keywordFragments, semanticFragments) ==
    SortByLineStart(DedupFrom(keywordFragments \o semanticFragments, 1, {}, <<>>))

RECURSIVE Flatten(_)
Flatten(arrays) ==
    IF arrays = <<>> THEN <<>> ELSE Head(arrays) \o Flatten(Tail(arrays))

\* queryEntryWithKeywords: uniqueFragments
MergeKeywordFragments(fragmentArrays) ==
    SortByLineStart(DedupFrom(Flatten(fragmentArrays), 1, {}, <<>>))

RECURSIVE MapIndicesZeroBased(_, _)
MapIndicesZeroBased(indices, quotes) ==
    IF indices = <<>> THEN <<>>
    ELSE (IF Head(indices) + 1 \in DOMAIN quotes
          THEN <<quotes[Head(indices) + 1]>> ELSE <<>>)
         \o MapIndicesZeroBased(Tail(indices), quotes)

\* supportingQuoteIndices (1-based) mapped to quotes, misses filtered out
RECURSIVE MapIndices(_, _)
MapIndices(indices, quotes) ==
    IF indices = <<>> THEN <<>>
    ELSE (IF Head(indices) \in DOMAIN quotes THEN <<quotes[Head(indices)]>> ELSE <<>>)
         \o MapIndices(Tail(indices), quotes)

SupportingQuotes(indices, quotes) ==
    IF IsSome(indices) THEN Some(MapIndices(Val(indices), quotes)) ELSE None

(***************************************************************************)
(* ValidationResult records                                                *)
(***************************************************************************)
\* validateCitation: the result for a missing entry
EntryMissingResult(citation, paragraph) ==
    [citation |-> citation, status |-> "not_supported", confidence |-> 0,
     explanation |-> <<"Paper not found: ", citation.key>>,
     supportingQuotes |-> None, paragraphText |-> paragraph.text,
     paper |-> None, modelId |-> None, rephrase |-> None,
     tokenUsage |-> None, costUsd |-> None]

\* validateCitation: the result assembled from the oracle's response
ResolvedResult(citation, paragraph, paper, quotes, llmResponse, model) ==
    [citation |-> citation, status |-> llmResponse.status,
     confidence |-> llmResponse.confidence,
     explanation |-> llmResponse.explanation,
     supportingQuotes |-> SupportingQuotes(llmResponse.supportingQuoteIndices, quotes),
     paragraphText |-> paragraph.text,
     paper |-> Some(paper), modelId |-> Some(model),
     rephrase |-> llmResponse.rephrase,
     tokenUsage |-> llmResponse.tokenUsage,
     costUsd |-> IF IsSome(llmResponse.tokenUsage)
                 THEN Some(calculateCost(Val(llmResponse.tokenUsage), model))
                 ELSE None]

OracleFailureResultWithRephrase(citation, paragraph, paper, errorMessage, model) ==
    [citation |-> citation, status |-> "not_supported", confidence |-> 0,
     explanation |-> <<"Validation failed: ", errorMessage>>,
     supportingQuotes |-> None, paragraphText |-> paragraph.text,
     paper |-> Some(paper), modelId |-> Some(model),
     rephrase |-> Some("try again"), tokenUsage |-> None, costUsd |-> None]

\* validateCitation: the result of the catch block
OracleFailureResult(citation, paragraph, paper, errorMessage, model) ==
    [citation |-> citation, status |-> "not_supported", confidence |-> 0,
     explanation |-> <<"Validation failed: ", errorMessage>>,
     supportingQuotes |-> None, paragraphText |-> paragraph.text,
     paper |-> Some(paper), modelId |-> Some(model), rephrase |-> None,
     tokenUsage |-> None, costUsd |-> None]

\* validateDocument / validateDocumentWithConcurrencyLimit: no paragraph
OrphanResult(citation) ==
    [citation |-> citation, status |-> "not_supported", confidence |-> 0,
     explanation |-> <<"Could not determine paragraph context">>,
     supportingQuotes |-> None, paragraphText |-> <<>>,
     paper |-> None, modelId |-> None, rephrase |-> None,
     tokenUsage |-> None, costUsd |-> None]

(***************************************************************************)
(* Per-citation validation records                                         *)
(***************************************************************************)
IdleTask ==
    [pc |-> "idle",             \* idle, gather1, gather2, oracle, done, resolved
                                \* (rejected: the promise was rejected)
     calls |-> {},              \* the collaborators this validation has called
     pq |-> "none",             \* getPaperWithQuotes: none, pending, done
     paper |-> None, quotes |-> None,
     kw |-> "none",             \* extractKeywords: none, pending, done
     keywords |-> [english |-> <<>>, dutch |-> <<>>],
     file |-> "none",           \* getFileContent: none, skipped, pending, done
     fileContent |-> None, filePaper |-> None,
     kwf |-> "none",            \* queryEntryWithKeywords
     keywordCached |-> <<>>, keywordFragments |-> <<>>,
     sem |-> "none",            \* semanticQueryEntry
     semanticFragments |-> None,
     model |-> None,            \* config.bedrock.model of the getConfig() snapshot
     invoked |-> None,          \* the modelId of the InvokeModelCommand sent
     request |-> None,          \* the ValidationRequest sent to the oracle
     response |-> None,         \* the text invokeModel resolved with, if any
     oracleOutcome |-> None,    \* how the oracle call settled, once it has
     startedAt |-> 0,           \* Date.now() when validateCitation was called
     returnedAt |-> 0,          \* Date.now() when it returned
     out |-> None]              \* the value the promise resolved with

\* the part of the state the continuations of a document validation write
Bundle ==
    [tasks |-> tasks, cache |-> cache, results |-> results,
     completed |-> completed, reports |-> reports]

Commit(st) ==
    /\ tasks' = st.tasks
    /\ cache' = st.cache
    /\ results' = st.results
    /\ completed' = st.completed
    /\ reports' = st.reports

\* progress.report({message: `Validated ${completed}/${total}: @${key}`,
\*                  increment: (1 / total) * 100})
ProgressReport(count, total, key) ==
    [completed |-> count, total |-> total, key |-> key,
     increment |-> [num |-> 100, den |-> total]]

\* the first hole of an array under assembly
FirstHole(res) == CHOOSE h \in DOMAIN res :
                    ~IsSome(res[h]) /\ \A g \in DOMAIN res : g < h => IsSome(res[g])

PromiseAllStoreInArrivalOrder(res, idx, result) ==
    [res EXCEPT ![FirstHole(res)] = Some(result)]

\* Promise.all(validationTasks): the value of task idx lands in slot idx
PromiseAllStore(res, idx, result) == [res EXCEPT ![idx] = Some(result)]

\* validateDocument: the .then callback attached to validateCitation
OnValidated(st, idx, result) ==
    LET count == st.completed + 1
    IN [st EXCEPT !.completed = count,
                  !.reports = IF progress
                              THEN Append(@, ProgressReport(count, Len(citations),
                                                            citations[idx].key))
                              ELSE @,
                  !.results = PromiseAllStore(@, idx, result)]

\* validateCitation returns: its promise resolves with result
Return(st, idx, result) ==
    LET st1 == [st EXCEPT !.tasks[idx] =
                    [IdleTask EXCEPT !.pc = "done", !.calls = st.tasks[idx].calls,
                                     !.oracleOutcome = st.tasks[idx].oracleOutcome,
                                     !.model = st.tasks[idx].model,
                                     !.invoked = st.tasks[idx].invoked,
                                     !.startedAt = st.tasks[idx].startedAt,
                                     !.returnedAt = now,
                                     !.out = Some(result)]]
    IN IF mode = "all" THEN OnValidated(st1, idx, result) ELSE st1

\* validateCitation up to its first await: the cache check and, on a miss,
\* the start of getPaperWithQuotes and extractKeywords
ValidateCitationStart(st, idx, citation, paragraph) ==
    LET cacheKey == ValidationKey(citation, paragraph)
        cached == CacheGet(st.cache, now, cacheKey)
        c1 == CacheAfterGet(st.cache, now, cacheKey)
        id == citation.key
        cachedPaper == CacheGet(c1, now, EntryKey(id))
        c2 == CacheAfterGet(c1, now, EntryKey(id))
        cachedQuotes == CacheGet(c2, now, QuotesKey(id))
        c3 == CacheAfterGet(c2, now, QuotesKey(id))
    IN IF IsSome(cached)
       THEN Return([st EXCEPT !.cache = c1, !.tasks[idx].calls = {"cache.get"},
                              !.tasks[idx].model = Some(config.model),
                              !.tasks[idx].startedAt = now],
                   idx, Val(cached))
       ELSE [st EXCEPT !.cache = c3,
                       !.tasks[idx] =
                           [IdleTask EXCEPT
                               !.pc = "gather1", !.startedAt = now,
                               !.model = Some(config.model),
                               !.calls = {"cache.get", "getPaperWithQuotes",
                                          "extractKeywords"},
                               !.pq = "pending", !.paper = cachedPaper,
                               !.quotes = cachedQuotes, !.kw = "pending"]]

StartTaskFirstParagraph(st, idx) ==
    LET citation == citations[idx]
        paragraph == FindParagraph(paragraphs, citation)
    IN ValidateCitationStart(st, idx, citation,
                             IF IsSome(paragraph) THEN Val(paragraph) ELSE paragraphs[1])

\* the callback of citations.map / batch.map for the citation at idx
StartTask(st, idx) ==
    LET citation == citations[idx]
        paragraph == FindParagraph(paragraphs, citation)
    IN IF ~IsSome(paragraph)
       THEN LET st1 == [st EXCEPT !.tasks[idx] =
                           [IdleTask EXCEPT !.pc = "resolved",
                                            !.out = Some(OrphanResult(citation))]]
            IN IF mode = "all"
               THEN [st1 EXCEPT !.results = PromiseAllStore(@, idx, OrphanResult(citation))]
               ELSE st1
       ELSE ValidateCitationStart(st, idx, citation, Val(paragraph))

\* map over the citations lo..hi, in order
RECURSIVE StartTasks(_, _, _)
StartTasks(st, lo, hi) ==
    IF lo > hi THEN st ELSE StartTasks(StartTask(st, lo), lo + 1, hi)

(***************************************************************************)
(* The continuations of validateCitation                                   *)
(***************************************************************************)
ParagraphOf(i) == Val(FindParagraph(paragraphs, citations[i]))

\* getPaperWithQuotes resolves: getPaper and getQuotes have finished their
\* probing loops; each caches what it found
PaperWithQuotesDone(i) ==
    /\ tasks[i].pc = "gather1"
    /\ tasks[i].pq = "pending"
    /\ LET t == tasks[i]
           id == citations[i].key
           paper == IF IsSome(t.paper) THEN t.paper ELSE ProbePaper(corpus, id)
           c1 == IF ~IsSome(t.paper) /\ IsSome(paper)
                 THEN CacheSet(cache, now, ttlMs, EntryKey(id), Val(paper))
                 ELSE cache
           probed == IF IsSome(t.quotes) THEN t.quotes ELSE ProbeQuotes(corpus, id)
           c2 == IF ~IsSome(t.quotes) /\ IsSome(probed)
                 THEN CacheSet(c1, now, ttlMs, QuotesKey(id), Val(probed))
                 ELSE c1
       IN /\ tasks' = [tasks EXCEPT ![i].pq = "done", ![i].paper = paper,
                                    ![i].quotes = IF IsSome(probed) THEN probed
                                                  ELSE Some(<<>>)]
          /\ cache' = c2
    /\ UNCHANGED <<cacheInstance, lastSet, serviceInstance, config, faults, lookups, call, ret, citations, paragraphs, mode, concurrencyLimit, progress, docpc,
                   batchStart, batches, results, completed, reports, now, ttlMs,
                   corpus>>

\* extractKeywords resolves (it never rejects)
KeywordsDone(i) ==
    /\ tasks[i].pc = "gather1"
    /\ tasks[i].kw = "pending"
    /\ \E ks \in (IF "extractKeywords" \in faults
                  THEN {[english |-> <<>>, dutch |-> <<>>]}
                  ELSE KeywordOutcomes) :
          tasks' = [tasks EXCEPT ![i].kw = "done", ![i].keywords = ks]
    /\ UNCHANGED <<cacheInstance, lastSet, serviceInstance, config, faults, lookups, call, ret, citations, paragraphs, mode, concurrencyLimit, progress, docpc,
                   batchStart, batches, results, completed, reports, cache, now,
                   ttlMs, corpus>>

RECURSIVE ExpireAll(_, _, _)
ExpireAll(c, t, keys) ==
    IF keys = <<>> THEN c
    ELSE ExpireAll(CacheAfterGet(c, t, Head(keys)), t, Tail(keys))

AlwaysWantsFileContent(citation) == TRUE

\* citation.pageRef ? getFileContent(...) : Promise.resolve(undefined)
WantsFileContent(citation) == IsSome(citation.pageRef)

\* [...extractedKeywords.english, ...extractedKeywords.dutch]
AllKeywords(extracted) == extracted.english \o extracted.dutch

WantsEnglishKeywordSearch(extracted) == Len(extracted.english) > 0

\* allKeywords.length > 0 ? queryEntryWithKeywords(...) : Promise.resolve([])
WantsKeywordSearch(extracted) == Len(AllKeywords(extracted)) > 0

EntryNeverUnavailable(paper) == FALSE

\* if (error || !paper): getPaperWithQuotes reports an error exactly when it
\* has no paper
EntryUnavailable(paper) == ~IsSome(paper)

EvidenceStartCachesMissing(st, i) ==
    LET t == st.tasks[i]
        result == EntryMissingResult(citations[i], ParagraphOf(i))
    IN IF ~IsSome(t.paper)
       THEN Return([st EXCEPT
                      !.cache = CacheSet(@, now, ttlMs,
                                         ValidationKey(citations[i], ParagraphOf(i)),
                                         result),
                      !.tasks[i].calls = @ \cup {"cache.set"}],
                   i, result)
       ELSE [st EXCEPT !.tasks[i] = [t EXCEPT !.pc = "gather2", !.pq = "none",
                                              !.kw = "none", !.file = "skipped",
                                              !.kwf = "skipped", !.sem = "pending",
                                              !.calls = @ \cup {"semanticQueryEntry"}]]

\* validateCitation after its first await: the entry check and the start of
\* the three evidence fetches
EvidenceStart(st, i) ==
    LET t == st.tasks[i]
        citation == citations[i]
        paragraph == ParagraphOf(i)
        id == citation.key
        allKeywords == AllKeywords(t.keywords)
        wantFile == WantsFileContent(citation)
        cachedFile == IF wantFile THEN CacheGet(st.cache, now, FileContentKey(id)) ELSE None
        c1 == IF wantFile THEN CacheAfterGet(st.cache, now, FileContentKey(id)) ELSE st.cache
        needPaper == wantFile /\ ~IsSome(cachedFile)
        cachedPaper == IF needPaper THEN CacheGet(c1, now, EntryKey(id)) ELSE None
        c2 == IF needPaper THEN CacheAfterGet(c1, now, EntryKey(id)) ELSE c1
        wantKw == WantsKeywordSearch(t.keywords)
        queryKeys == [k \in 1..Len(allKeywords) |-> QueryKey(id, allKeywords[k])]
        kwCached == IF wantKw
                    THEN [k \in 1..Len(allKeywords) |-> CacheGet(c2, now, queryKeys[k])]
                    ELSE <<>>
        c3 == IF wantKw THEN ExpireAll(c2, now, queryKeys) ELSE c2
        cachedSem == CacheGet(c3, now, SemanticKey(id, paragraph.text))
        c4 == CacheAfterGet(c3, now, SemanticKey(id, paragraph.text))
    IN IF EntryUnavailable(t.paper)
       THEN Return(st, i, EntryMissingResult(citation, paragraph))
       ELSE [st EXCEPT
               !.cache = c4,
               !.tasks[i] =
                   [t EXCEPT
                      !.pc = "gather2", !.pq = "none", !.kw = "none",
                      !.calls = @ \cup (IF wantFile THEN {"getFileContent"} ELSE {})
                                  \cup (IF wantKw THEN {"queryEntryWithKeywords"} ELSE {})
                                  \cup {"semanticQueryEntry"},
                      !.file = IF wantFile THEN "pending" ELSE "skipped",
                      !.fileContent = cachedFile, !.filePaper = cachedPaper,
                      !.kwf = IF wantKw THEN "pending" ELSE "skipped",
                      !.keywordCached = kwCached,
                      !.sem = "pending", !.semanticFragments = cachedSem]]

GatherJoinEarly(i) ==
    /\ tasks[i].pc = "gather1"
    /\ tasks[i].pq = "done"
    /\ Commit(EvidenceStart(Bundle, i))
    /\ UNCHANGED <<cacheInstance, lastSet, serviceInstance, config, faults, lookups, call, ret, citations, paragraphs, mode, concurrencyLimit, progress, docpc,
                   batchStart, batches, now, ttlMs, corpus>>

\* await Promise.all([getPaperWithQuotes, extractKeywords]) resumes
GatherJoin(i) ==
    /\ tasks[i].pc = "gather1"
    /\ tasks[i].pq = "done"
    /\ tasks[i].kw = "done"
    /\ Commit(EvidenceStart(Bundle, i))
    /\ UNCHANGED <<cacheInstance, lastSet, serviceInstance, config, faults, lookups, call, ret, citations, paragraphs, mode, concurrencyLimit, progress, docpc,
                   batchStart, batches, now, ttlMs, corpus>>

FileText(id) == <<"content of ", id>>

\* getFileContent resolves: the entry is looked up again, then the file read
FileContentDone(i) ==
    /\ tasks[i].pc = "gather2"
    /\ tasks[i].file = "pending"
    /\ LET t == tasks[i]
           id == citations[i].key
           paper == IF IsSome(t.fileContent) \/ IsSome(t.filePaper) THEN t.filePaper
                    ELSE ProbePaper(corpus, id)
           c1 == IF ~IsSome(t.fileContent) /\ ~IsSome(t.filePaper) /\ IsSome(paper)
                 THEN CacheSet(cache, now, ttlMs, EntryKey(id), Val(paper))
                 ELSE cache
           readable == ~IsSome(t.fileContent) /\ IsSome(paper)
                       /\ Val(paper).file_path_markdown
       IN \E readOk \in (IF readable /\ "readFile" \notin faults THEN BOOLEAN ELSE {FALSE}) :
            /\ tasks' = [tasks EXCEPT
                  ![i].file = "done", ![i].filePaper = None,
                  ![i].fileContent = IF IsSome(t.fileContent) THEN t.fileContent
                                     ELSE IF readOk THEN Some(FileText(id))
                                     ELSE None]
            /\ cache' = IF readOk
                        THEN CacheSet(c1, now, ttlMs, FileContentKey(id), FileText(id))
                        ELSE c1
    /\ UNCHANGED <<cacheInstance, lastSet, serviceInstance, config, faults, lookups, call, ret, citations, paragraphs, mode, concurrencyLimit, progress, docpc,
                   batchStart, batches, results, completed, reports, now, ttlMs,
                   corpus>>

\* the probing loop of queryEntry
RECURSIVE ProbeQueryFrom(_, _, _, _)
ProbeQueryFrom(corp, id, keyword, pos) ==
    IF pos > Len(ENTRY_TYPES) THEN None
    ELSE IF ShowSucceeds(corp, ENTRY_TYPES[pos], id) THEN Some(KeywordHits(keyword))
    ELSE ProbeQueryFrom(corp, id, keyword, pos + 1)

RECURSIVE CacheQueries(_, _, _, _, _, _)
CacheQueries(c, t, ttl, id, keywords, found) ==
    IF keywords = <<>> THEN c
    ELSE CacheQueries(IF IsSome(Head(found))
                      THEN CacheSet(c, t, ttl, QueryKey(id, Head(keywords)), Val(Head(found)))
                      ELSE c,
                      t, ttl, id, Tail(keywords), Tail(found))

\* queryEntryWithKeywords resolves: every queryEntry has finished
KeywordFragmentsDone(i) ==
    /\ tasks[i].pc = "gather2"
    /\ tasks[i].kwf = "pending"
    /\ LET t == tasks[i]
           id == citations[i].key
           keywords == AllKeywords(t.keywords)
           n == Len(keywords)
           probed == [k \in 1..n |->
                         IF IsSome(t.keywordCached[k]) \/ "query" \in faults THEN None
                         ELSE ProbeQueryFrom(corpus, id, keywords[k], 1)]
           fragmentArrays == [k \in 1..n |->
                                 IF IsSome(t.keywordCached[k]) THEN Val(t.keywordCached[k])
                                 ELSE IF IsSome(probed[k]) THEN Val(probed[k])
                                 ELSE <<>>]
       IN /\ tasks' = [tasks EXCEPT
                 ![i].kwf = "done", ![i].keywordCached = <<>>,
                 ![i].keywordFragments = MergeKeywordFragments(fragmentArrays)]
          /\ cache' = CacheQueries(cache, now, ttlMs, id, keywords, probed)
    /\ UNCHANGED <<cacheInstance, lastSet, serviceInstance, config, faults, lookups, call, ret, citations, paragraphs, mode, concurrencyLimit, progress, docpc,
                   batchStart, batches, results, completed, reports, now, ttlMs,
                   corpus>>

semanticQueryEntryUncaught(corp, id, cached, failed) ==
    IF IsSome(cached) THEN [ok |-> TRUE, fragments |-> cached, found |-> None]
    ELSE IF failed THEN [ok |-> FALSE, fragments |-> None, found |-> None]
    ELSE IF IsSome(corp[id])
         THEN [ok |-> TRUE, fragments |-> Some(SemanticHits), found |-> Some(SemanticHits)]
         ELSE [ok |-> TRUE, fragments |-> Some(<<>>), found |-> None]

\* semanticQueryEntry after its cache check: how the promise settles, the
\* fragments it resolves with and the fragments it has found and caches;
\* a failed command is caught and yields the empty list
semanticQueryEntry(corp, id, cached, failed) ==
    IF IsSome(cached) THEN [ok |-> TRUE, fragments |-> cached, found |-> None]
    ELSE IF failed THEN [ok |-> TRUE, fragments |-> Some(<<>>), found |-> None]
    ELSE IF IsSome(corp[id])
         THEN [ok |-> TRUE, fragments |-> Some(SemanticHits), found |-> Some(SemanticHits)]
         ELSE [ok |-> TRUE, fragments |-> Some(<<>>), found |-> None]

\* semanticQueryEntry settles; were it to reject, Promise.all and with it
\* validateCitation would reject
SemanticFragmentsDone(i) ==
    /\ tasks[i].pc = "gather2"
    /\ tasks[i].sem = "pending"
    /\ LET t == tasks[i]
           id == citations[i].key
           settled == semanticQueryEntry(corpus, id, t.semanticFragments,
                                         "semantic" \in faults)
       IN IF settled.ok
          THEN /\ tasks' = [tasks EXCEPT ![i].sem = "done",
                                         ![i].semanticFragments = settled.fragments]
               /\ cache' = IF IsSome(settled.found)
                           THEN CacheSet(cache, now, ttlMs,
                                         SemanticKey(id, ParagraphOf(i).text),
                                         Val(settled.found))
                           ELSE cache
          ELSE /\ tasks' = [tasks EXCEPT ![i] =
                               [IdleTask EXCEPT !.pc = "rejected", !.calls = t.calls,
                                                !.startedAt = t.startedAt,
                                                !.returnedAt = now]]
               /\ cache' = cache
    /\ UNCHANGED <<cacheInstance, lastSet, serviceInstance, config, faults, lookups, call, ret, citations, paragraphs, mode, concurrencyLimit, progress, docpc,
                   batchStart, batches, results, completed, reports, now, ttlMs,
                   corpus>>

\* the validation of citation i once it has combined the fragments and
\* called bedrockService.validateCitation
OracleCalled(i) ==
    LET t == tasks[i]
        combined == CombineFragments(t.keywordFragments, Val(t.semanticFragments))
    IN [IdleTask EXCEPT
          !.pc = "oracle", !.calls = t.calls \cup {"oracle"},
          !.startedAt = t.startedAt, !.model = t.model,
          !.paper = t.paper, !.quotes = t.quotes,
          !.request = Some([paragraphText |-> ParagraphOf(i).text,
                            citationKey |-> citations[i].key,
                            quotes |-> Val(t.quotes),
                            fileContent |-> t.fileContent,
                            keywordFragments |-> combined])]

\* validateCitation after its second await: the fragments are combined and
\* the oracle is called
EvidenceJoin(i) ==
    /\ tasks[i].pc = "gather2"
    /\ tasks[i].file \in {"skipped", "done"}
    /\ tasks[i].kwf \in {"skipped", "done"}
    /\ tasks[i].sem = "done"
    /\ tasks' = [tasks EXCEPT ![i] = OracleCalled(i)]
    /\ UNCHANGED <<cacheInstance, lastSet, serviceInstance, config, faults, lookups, call, ret, citations, paragraphs, mode, concurrencyLimit, progress, docpc,
                   batchStart, batches, results, completed, reports, cache, now,
                   ttlMs, corpus>>

OracleAnswerUncaught(st, i, outcome) ==
    LET t == st.tasks[i]
        citation == citations[i]
        paragraph == ParagraphOf(i)
        result == ResolvedResult(citation, paragraph, Val(t.paper), Val(t.quotes), outcome,
                                 Val(t.model))
        st1 == [st EXCEPT !.tasks[i].oracleOutcome = Some(outcome)]
    IN IF outcome.ok
       THEN Return([st1 EXCEPT
                      !.cache = CacheSet(@, now, ttlMs,
                                         ValidationKey(citation, paragraph), result),
                      !.tasks[i].calls = @ \cup {"cache.set"}],
                   i, result)
       ELSE [st1 EXCEPT !.tasks[i] =
                [IdleTask EXCEPT !.pc = "rejected", !.calls = t.calls,
                                 !.oracleOutcome = Some(outcome),
                                 !.startedAt = t.startedAt, !.returnedAt = now]]

\* the oracle call settles: the try block completes or the catch block runs
OracleAnswer(st, i, outcome) ==
    LET t == st.tasks[i]
        citation == citations[i]
        paragraph == ParagraphOf(i)
        result == ResolvedResult(citation, paragraph, Val(t.paper), Val(t.quotes), outcome,
                                 Val(t.model))
        st1 == [st EXCEPT !.tasks[i].oracleOutcome = Some(outcome)]
    IN IF outcome.ok
       THEN Return([st1 EXCEPT
                      !.cache = CacheSet(@, now, ttlMs,
                                         ValidationKey(citation, paragraph), result),
                      !.tasks[i].calls = @ \cup {"cache.set"}],
                   i, result)
       ELSE Return(st1, i, OracleFailureResult(citation, paragraph, Val(t.paper),
                                               outcome.message, Val(t.model)))

OracleDone(i) ==
    /\ tasks[i].pc = "oracle"
    /\ \E outcome \in OracleOutcomes : Commit(OracleAnswer(Bundle, i, outcome))
    /\ UNCHANGED <<cacheInstance, lastSet, serviceInstance, config, faults, lookups, call, ret, citations, paragraphs, mode, concurrencyLimit, progress, docpc,
                   batchStart, batches, now, ttlMs, corpus>>

\* an oracle whose answer is a function of the request
OracleVerdict(request) ==
    IF request.paragraphText = TextAa
    THEN CHOOSE o \in OracleOutcomes : o.ok /\ o.status = "supported"
    ELSE CHOOSE o \in OracleOutcomes : o.ok /\ o.status = "not_supported"

\* the oracle call settles with the answer that belongs to the request
OracleAnswers(i) ==
    /\ tasks[i].pc = "oracle"
    /\ Commit(OracleAnswer(Bundle, i, OracleVerdict(Val(tasks[i].request))))
    /\ UNCHANGED <<cacheInstance, lastSet, serviceInstance, config, faults, lookups, call, ret, citations, paragraphs, mode, concurrencyLimit, progress, docpc,
                   batchStart, batches, now, ttlMs, corpus>>

\* a response object with the three required properties
ResponseObject(status, confidence, indices, rephrase) ==
    [EmptyObject EXCEPT !.status = Some(status),
                        !.confidence = Some([type |-> "number", n |-> confidence]),
                        !.explanation = Some(<<"because">>),
                        !.supportingQuoteIndices = indices,
                        !.rephrase = rephrase]

\* what the Bedrock call may do: resolve with a body whose content[0].text
\* is the text and whose usage block counts the tokens, or reject
BedrockReplies ==
    { [ok |-> TRUE,
       object |-> Some(ResponseObject("supported", 150, Some(<<2, 1>>),
                                      Some("tighter wording"))),
       prefix |-> <<Prose("Here is my assessment: ")>>,
       usage |-> Some([inputTokens |-> 1200, outputTokens |-> 300])],
      [ok |-> TRUE,
       object |-> Some(ResponseObject("partial", -300, Some(<<0, 2, 3, 1>>), None)),
       prefix |-> <<>>, usage |-> None],
      [ok |-> TRUE,
       object |-> Some(ResponseObject("not_supported", 50, Some(<<-1, 2, 2>>),
                                      Some("cite another source"))),
       prefix |-> <<>>, usage |-> Some([inputTokens |-> 1200, outputTokens |-> 300])],
      [ok |-> TRUE,
       object |-> Some(ResponseObject("supported", 100, None, None)),
       prefix |-> <<>>, usage |-> None],
      [ok |-> TRUE,
       object |-> Some(ResponseObject("maybe", 50, None, None)),
       prefix |-> <<>>, usage |-> None],
      [ok |-> TRUE, object |-> None, prefix |-> <<Prose("I cannot tell.")>>,
       usage |-> None],
      [ok |-> FALSE, message |-> "Unexpected response format from Bedrock"] }

\* invokeModel: the text of the reply; the usage block is not read
InvokeModel(reply) == ResponseText(reply.prefix, reply.object, <<>>)

\* BedrockService.validateCitation: invokeModel, then parseValidationResponse
BedrockValidateCitation(reply) ==
    IF reply.ok THEN parseValidationResponse(InvokeModel(reply))
    ELSE Throw(reply.message)

\* the oracle call settles, seen from the Bedrock reply onwards
OracleResponds(i) ==
    /\ tasks[i].pc = "oracle"
    /\ \E reply \in BedrockReplies :
          Commit([OracleAnswer(Bundle, i, BedrockValidateCitation(reply))
                    EXCEPT !.tasks[i].response = Some(reply)])
    /\ UNCHANGED <<cacheInstance, lastSet, serviceInstance, config, faults, lookups, call, ret, citations, paragraphs, mode, concurrencyLimit,
                   progress, docpc, batchStart, batches, now, ttlMs, corpus>>

(***************************************************************************)
(* The BedrockService singleton and the call of the oracle from            *)
(* getBedrockService up to the InvokeModelCommand.  Region and profile are *)
(* not modelled.                                                           *)
(***************************************************************************)
\* BedrockService.configure
configure(service, modelId) == [service EXCEPT !.modelId = modelId]

\* getBedrockService(region, modelId, profile) once the singleton exists
getBedrockService(service, modelId) == configure(service, modelId)

\* this.modelId.startsWith('global.')
IsInferenceProfile(modelId) == Len(modelId) > 0 /\ Head(modelId) = "global."

\* the inference-profile ARN built around a model id
Arn(modelId) == <<"arn:aws:bedrock:region:account:inference-profile/">> \o modelId

\* validateCitation after its second await, up to the first await of
\* invokeModel: the singleton is configured from the snapshot, the client is
\* taken, and resolveModelId either returns this.modelId at once or awaits
\* the account id (configure has just forgotten it)
EvidenceJoinInvoke(i) ==
    /\ tasks[i].pc = "gather2"
    /\ tasks[i].file \in {"skipped", "done"}
    /\ tasks[i].kwf \in {"skipped", "done"}
    /\ tasks[i].sem = "done"
    /\ LET service == getBedrockService(serviceInstance, Val(tasks[i].model))
           awaits == IsInferenceProfile(service.modelId)
       IN /\ serviceInstance' = service
          /\ tasks' = [tasks EXCEPT ![i] =
                [OracleCalled(i) EXCEPT
                    !.pc = IF awaits THEN "sts" ELSE "oracle",
                    !.invoked = IF awaits THEN None ELSE Some(service.modelId)]]
    /\ UNCHANGED <<cacheInstance, lastSet, config, faults, lookups, call, ret, citations,
                   paragraphs, mode, concurrencyLimit, progress, docpc, batchStart,
                   batches, results, completed, reports, cache, now, ttlMs, corpus>>

\* getAccountId resolves and resolveModelId builds the ARN from this.modelId
\* as it is now; the command is sent
AccountIdResolved(i) ==
    /\ tasks[i].pc = "sts"
    /\ tasks' = [tasks EXCEPT ![i].pc = "oracle",
                              ![i].invoked = Some(Arn(serviceInstance.modelId))]
    /\ UNCHANGED <<cacheInstance, lastSet, serviceInstance, config, faults, lookups, call,
                   ret, citations, paragraphs, mode, concurrencyLimit, progress, docpc,
                   batchStart, batches, results, completed, reports, cache, now, ttlMs,
                   corpus>>

\* getAccountId rejects: the catch block of validateCitation runs
AccountIdFailed(i) ==
    /\ tasks[i].pc = "sts"
    /\ Commit(OracleAnswer(Bundle, i, Throw("Could not determine AWS account ID")))
    /\ UNCHANGED <<cacheInstance, lastSet, serviceInstance, config, faults, lookups, call,
                   ret, citations, paragraphs, mode, concurrencyLimit, progress, docpc,
                   batchStart, batches, now, ttlMs, corpus>>

\* the paperIndex.bedrock.model setting is changed: the configuration
\* listener reconfigures the singleton
ConfigurationChanged(model) ==
    /\ model # config.model
    /\ config' = [config EXCEPT !.model = model]
    /\ serviceInstance' = getBedrockService(serviceInstance, model)
    /\ UNCHANGED <<docVars, cache, now, ttlMs, corpus, lookups, call, ret, cacheInstance,
                   lastSet, faults>>

(***************************************************************************)
(* validateDocument                                                        *)
(***************************************************************************)
\* the call: citations.map starts every validation, then await Promise.all
ValidateDocument ==
    /\ mode = "all"
    /\ docpc = "start"
    /\ Commit(StartTasks(Bundle, 1, Len(citations)))
    /\ docpc' = "awaiting"
    /\ UNCHANGED <<cacheInstance, lastSet, serviceInstance, config, faults, lookups, call, ret, citations, paragraphs, mode, concurrencyLimit, progress,
                   batchStart, batches, now, ttlMs, corpus>>

\* Promise.all over the promises lo..hi: it resolves once every promise has
\* resolved and rejects as soon as one is rejected
AllResolvedByValidation(lo, hi) == \A idx \in lo..hi : tasks[idx].pc = "done"

AllResolved(lo, hi) == \A idx \in lo..hi : IsSome(tasks[idx].out)
AnyRejected(lo, hi) == \E idx \in lo..hi : tasks[idx].pc = "rejected"
PromiseAllSettled(lo, hi) == AllResolved(lo, hi) \/ AnyRejected(lo, hi)

\* await Promise.all(validationTasks) resumes; results is returned
DocumentResolve ==
    /\ mode = "all"
    /\ docpc = "awaiting"
    /\ PromiseAllSettled(1, Len(citations))
    /\ docpc' = IF AnyRejected(1, Len(citations)) THEN "rejected" ELSE "done"
    /\ UNCHANGED <<cacheInstance, lastSet, serviceInstance, config, faults, lookups, call, ret, citations, paragraphs, mode, concurrencyLimit, progress,
                   batchStart, batches, tasks, results, completed, reports, cache,
                   now, ttlMs, corpus>>

(***************************************************************************)
(* validateDocumentWithConcurrencyLimit                                    *)
(***************************************************************************)
\* citations.slice(i, Math.min(i + concurrencyLimit, total)), as 1-based bounds
\* Array.prototype.slice: a negative index counts from the end, and every
\* index is clamped to 0..length
SliceIndex(x, length) == IF x < 0 THEN Max(length + x, 0) ELSE Min(x, length)

BatchLo(start) == SliceIndex(start, Len(citations)) + 1
BatchHiOffByOne(start) == Min(start + concurrencyLimit + 1, Len(citations))

BatchHi(start) ==
    SliceIndex(Min(start + concurrencyLimit, Len(citations)), Len(citations))

\* batch.length
BatchSize(start) == Max(BatchHi(start) - BatchLo(start) + 1, 0)

StoreAtBatchIndex(res, batchStartIndex, batchIndex, result) ==
    [res EXCEPT ![batchIndex + 1] = Some(result)]

\* results[batchStartIndex + batchIndex] = result
StoreAt(res, batchStartIndex, batchIndex, result) ==
    [res EXCEPT ![batchStartIndex + batchIndex + 1] = Some(result)]

\* batchResults.forEach((result, batchIndex) => ...), from batchIndex on
RECURSIVE StoreBatch(_, _, _, _)
StoreBatch(st, batchStartIndex, batchIndex, size) ==
    IF batchIndex >= size THEN st
    ELSE LET result == Val(st.tasks[batchStartIndex + batchIndex + 1].out)
             count == st.completed + 1
             st1 == [st EXCEPT
                       !.results = StoreAt(@, batchStartIndex, batchIndex, result),
                       !.completed = count,
                       !.reports = IF progress
                                   THEN Append(@, ProgressReport(count, Len(citations),
                                                                 result.citation.key))
                                   ELSE @]
         IN StoreBatch(st1, batchStartIndex, batchIndex + 1, size)

\* the call: the first iteration of the batch loop up to its await
ValidateDocumentBounded ==
    /\ mode = "bounded"
    /\ docpc = "start"
    /\ IF batchStart < Len(citations)
       THEN /\ Commit(StartTasks(Bundle, BatchLo(batchStart), BatchHi(batchStart)))
            /\ batches' = Append(batches, BatchSize(batchStart))
            /\ docpc' = "awaiting"
       ELSE /\ docpc' = "done"
            /\ UNCHANGED <<cacheInstance, lastSet, serviceInstance, config, faults, batches, tasks, cache, results, completed, reports>>
    /\ UNCHANGED <<cacheInstance, lastSet, serviceInstance, config, faults, lookups, call, ret, citations, paragraphs, mode, concurrencyLimit, progress,
                   batchStart, now, ttlMs, corpus>>

\* await Promise.all(batchPromises) resumes: the batch is stored, i advances
\* and the loop either starts the next batch or returns
BatchJoin ==
    /\ mode = "bounded"
    /\ docpc = "awaiting"
    /\ PromiseAllSettled(BatchLo(batchStart), BatchHi(batchStart))
    /\ LET size == BatchSize(batchStart)
           stored == StoreBatch(Bundle, batchStart, 0, size)
           next == batchStart + concurrencyLimit
       IN IF AnyRejected(BatchLo(batchStart), BatchHi(batchStart))
          THEN /\ docpc' = "rejected"
               /\ UNCHANGED <<cacheInstance, lastSet, serviceInstance, config, faults, batchStart, batches, tasks, cache, results,
                              completed, reports>>
          ELSE
          /\ batchStart' = next
          /\ IF next < Len(citations)
             THEN /\ Commit(StartTasks(stored, BatchLo(next), BatchHi(next)))
                  /\ batches' = Append(batches, BatchSize(next))
                  /\ UNCHANGED docpc
             ELSE /\ Commit(stored)
                  /\ docpc' = "done"
                  /\ UNCHANGED batches
    /\ UNCHANGED <<cacheInstance, lastSet, serviceInstance, config, faults, lookups, call, ret, citations, paragraphs, mode, concurrencyLimit, progress,
                   now, ttlMs, corpus>>

\* validateDocument has returned; what it returned and reported is kept, the
\* cache is emptied and validateDocumentWithConcurrencyLimit is called with
\* the same citations and paragraphs
CallBoundedVariant ==
    /\ mode = "all"
    /\ docpc = "done"
    /\ call' = Some([fn |-> "validateDocument"])
    /\ ret' = Some([results |-> results, reports |-> reports])
    /\ mode' = "bounded"
    /\ docpc' = "start"
    /\ batchStart' = 0
    /\ batches' = <<>>
    /\ tasks' = [i \in 1..Len(citations) |-> IdleTask]
    /\ results' = [i \in 1..Len(citations) |-> None]
    /\ completed' = 0
    /\ reports' = <<>>
    /\ cache' = CacheClear(cache)
    /\ UNCHANGED <<citations, paragraphs, concurrencyLimit, progress, now, ttlMs, corpus,
                   lookups, cacheInstance, lastSet, serviceInstance, config, faults>>

\* one more pass of the batch loop, within the passes the model follows
BatchJoinWithin ==
    /\ Len(batches) < MaxBatches
    /\ BatchJoin

(***************************************************************************)
(* The lookups of PaperIndexService as read-through caches, each lookup    *)
(* taken as a whole: the value it resolves with, the cache afterwards and  *)
(* the number of external calls (CLI commands, file reads) it made.        *)
(***************************************************************************)
\* a string value, as opposed to an array or an object
Str(s) == [str |-> s]

\* if (cached): of the values these lookups store, arrays and objects are
\* truthy whatever they hold, a string is truthy unless it is empty
Truthy(v) == v # Str(<<>>)

\* the cache check at the head of every lookup, then the fetch on a miss
ReadThrough(c, t, ttl, key, fetch) ==
    LET cached == CacheGet(c, t, key)
        c1 == CacheAfterGet(c, t, key)
    IN IF IsSome(cached) /\ Truthy(Val(cached))
       THEN [value |-> cached, cache |-> c1, external |-> 0]
       ELSE [value |-> fetch.value,
             cache |-> IF IsSome(fetch.store)
                       THEN CacheSet(c1, t, ttl, key, Val(fetch.store))
                       ELSE c1,
             external |-> fetch.external]

\* the commands a probing loop over ENTRY_TYPES runs: up to the first success
Commands(corp, id) ==
    IF \E pos \in DOMAIN ENTRY_TYPES : ShowSucceeds(corp, ENTRY_TYPES[pos], id)
    THEN CHOOSE pos \in DOMAIN ENTRY_TYPES : ShowSucceeds(corp, ENTRY_TYPES[pos], id)
    ELSE Len(ENTRY_TYPES)

getPaper(c, t, ttl, corp, id) ==
    LET paper == ProbePaper(corp, id)
    IN ReadThrough(c, t, ttl, EntryKey(id),
                   [value |-> paper, store |-> paper, external |-> Commands(corp, id)])

getQuotes(c, t, ttl, corp, id) ==
    LET quotes == ProbeQuotes(corp, id)
    IN ReadThrough(c, t, ttl, QuotesKey(id),
                   [value |-> IF IsSome(quotes) THEN quotes ELSE Some(<<>>),
                    store |-> quotes, external |-> Commands(corp, id)])

\* on a miss getFileContent looks the entry up through getPaper, then reads
\* the file the entry names
getFileContent(c, t, ttl, corp, id) ==
    LET cached == CacheGet(c, t, FileContentKey(id))
        c1 == CacheAfterGet(c, t, FileContentKey(id))
        entry == getPaper(c1, t, ttl, corp, id)
        hasFile == IsSome(entry.value) /\ Val(entry.value).file_path_markdown
        content == Str(Val(corp[id]).fileText)
    IN IF IsSome(cached) /\ Truthy(Val(cached))
       THEN [value |-> cached, cache |-> c1, external |-> 0]
       ELSE IF hasFile
       THEN [value |-> Some(content),
             cache |-> CacheSet(entry.cache, t, ttl, FileContentKey(id), content),
             external |-> entry.external + 1]
       ELSE [value |-> None, cache |-> entry.cache, external |-> entry.external]

queryEntry(c, t, ttl, corp, id, keyword) ==
    LET fragments == ProbeQueryFrom(corp, id, keyword, 1)
    IN ReadThrough(c, t, ttl, QueryKey(id, keyword),
                   [value |-> IF IsSome(fragments) THEN fragments ELSE Some(<<>>),
                    store |-> fragments, external |-> Commands(corp, id)])

semanticQuery(c, t, ttl, corp, id, paragraphText) ==
    LET settled == semanticQueryEntry(corp, id, None, FALSE)
    IN ReadThrough(c, t, ttl, SemanticKey(id, paragraphText),
                   [value |-> settled.fragments, store |-> settled.found, external |-> 1])

\* a lookup is made on the adapter and runs to its end
AdapterCall(fn, key, lookup) ==
    /\ (IF IsSome(call) THEN Val(call).seq ELSE 0) < MaxAdapterCalls
    /\ call' = Some([fn |-> fn, key |-> key, at |-> now,
                     seq |-> (IF IsSome(call) THEN Val(call).seq ELSE 0) + 1])
    /\ ret' = Some([value |-> lookup.value, external |-> lookup.external])
    /\ cache' = lookup.cache
    /\ UNCHANGED <<docVars, now, ttlMs, corpus, lookups, cacheInstance, lastSet,
                   serviceInstance, config, faults>>

GetPaperCall(id) ==
    AdapterCall("getPaper", EntryKey(id), getPaper(cache, now, ttlMs, corpus, id))

GetQuotesCall(id) ==
    AdapterCall("getQuotes", QuotesKey(id), getQuotes(cache, now, ttlMs, corpus, id))

GetFileContentCall(id) ==
    AdapterCall("getFileContent", FileContentKey(id),
                getFileContent(cache, now, ttlMs, corpus, id))

QueryEntryCall(id, keyword) ==
    AdapterCall("queryEntry", QueryKey(id, keyword),
                queryEntry(cache, now, ttlMs, corpus, id, keyword))

SemanticQueryEntryCall(id, paragraphText) ==
    AdapterCall("semanticQueryEntry", SemanticKey(id, paragraphText),
                semanticQuery(cache, now, ttlMs, corpus, id, paragraphText))

(***************************************************************************)
(* PaperIndexService.getPaper, one CLI command at a time                   *)
(***************************************************************************)
IdleLookup ==
    [pc |-> "idle",        \* idle, probing (a show command is in flight), returned
     entryId |-> "",
     pos |-> 0,            \* index in ENTRY_TYPES of the command in flight
     commands |-> <<>>,    \* the categories this call has queried, in order
     cached |-> FALSE,     \* the call was answered from the cache
     value |-> None]       \* the entry returned; undefined is None

\* getPaper up to its first await: the cache check and, on a miss, the first
\* show command
GetPaperStart(entryId, cached) ==
    IF IsSome(cached)
    THEN [IdleLookup EXCEPT !.pc = "returned", !.entryId = entryId,
                            !.cached = TRUE, !.value = cached]
    ELSE [IdleLookup EXCEPT !.pc = "probing", !.entryId = entryId, !.pos = 1,
                            !.commands = <<ENTRY_TYPES[1]>>]

AfterShowSkipsACategory(lk, shown) ==
    IF IsSome(shown)
    THEN [lk EXCEPT !.pc = "returned", !.value = shown]
    ELSE IF lk.pos + 2 <= Len(ENTRY_TYPES)
         THEN [lk EXCEPT !.pos = @ + 2, !.commands = Append(@, ENTRY_TYPES[lk.pos + 2])]
         ELSE [lk EXCEPT !.pc = "returned", !.value = None]

\* the body of the probing loop once the show command has settled: shown is
\* the entry it printed, or None when the command was rejected
AfterShow(lk, shown) ==
    IF IsSome(shown)
    THEN [lk EXCEPT !.pc = "returned", !.value = shown]
    ELSE IF lk.pos < Len(ENTRY_TYPES)
         THEN [lk EXCEPT !.pos = @ + 1, !.commands = Append(@, ENTRY_TYPES[lk.pos + 1])]
         ELSE [lk EXCEPT !.pc = "returned", !.value = None]

GetPaper(j, entryId) ==
    /\ lookups[j].pc # "probing"
    /\ lookups' = [lookups EXCEPT
                      ![j] = GetPaperStart(entryId, CacheGet(cache, now, EntryKey(entryId)))]
    /\ cache' = CacheAfterGet(cache, now, EntryKey(entryId))
    /\ UNCHANGED <<cacheInstance, lastSet, serviceInstance, config, faults, citations, paragraphs, mode, concurrencyLimit, progress, docpc,
                   batchStart, batches, tasks, results, completed, reports, now,
                   ttlMs, corpus, call, ret>>

ShowSettled(j) ==
    /\ lookups[j].pc = "probing"
    /\ LET lk == lookups[j]
           shown == IF ShowSucceeds(corpus, ENTRY_TYPES[lk.pos], lk.entryId)
                    THEN Some(PaperOf(corpus, lk.entryId))
                    ELSE None
       IN /\ lookups' = [lookups EXCEPT ![j] = AfterShow(lk, shown)]
          /\ cache' = IF IsSome(shown)
                      THEN CacheSet(cache, now, ttlMs, EntryKey(lk.entryId), Val(shown))
                      ELSE cache
    /\ UNCHANGED <<cacheInstance, lastSet, serviceInstance, config, faults, citations, paragraphs, mode, concurrencyLimit, progress, docpc,
                   batchStart, batches, tasks, results, completed, reports, now,
                   ttlMs, corpus, call, ret>>

(***************************************************************************)
(* Pure functions applied to an argument record                            *)
(***************************************************************************)
\* the merge of validateCitation on the fragments of the two searches
CombineFragmentsCall ==
    /\ IsSome(call) /\ Val(call).fn = "combineFragments"
    /\ ret = None
    /\ ret' = Some(CombineFragments(Val(call).keywordFragments,
                                    Val(call).semanticFragments))
    /\ UNCHANGED <<cacheInstance, lastSet, serviceInstance, config, faults, citations, paragraphs, mode, concurrencyLimit, progress, docpc,
                   batchStart, batches, tasks, results, completed, reports, cache,
                   now, ttlMs, corpus, lookups, call>>

\* the merge of queryEntryWithKeywords on the fragments of every keyword
MergeKeywordFragmentsCall ==
    /\ IsSome(call) /\ Val(call).fn = "mergeKeywordFragments"
    /\ ret = None
    /\ ret' = Some(MergeKeywordFragments(Val(call).fragmentArrays))
    /\ UNCHANGED <<cacheInstance, lastSet, serviceInstance, config, faults, citations, paragraphs, mode, concurrencyLimit, progress, docpc,
                   batchStart, batches, tasks, results, completed, reports, cache,
                   now, ttlMs, corpus, lookups, call>>

CalculateCostCall ==
    /\ IsSome(call) /\ Val(call).fn = "calculateCost"
    /\ ret = None
    /\ ret' = Some(calculateCost(Val(call).tokenUsage, Val(call).modelId))
    /\ UNCHANGED <<cacheInstance, lastSet, serviceInstance, config, faults, citations, paragraphs, mode, concurrencyLimit, progress, docpc,
                   batchStart, batches, tasks, results, completed, reports, cache,
                   now, ttlMs, corpus, lookups, call>>

ParseValidationResponseCall ==
    /\ IsSome(call) /\ Val(call).fn = "parseValidationResponse"
    /\ ret = None
    /\ ret' = Some(parseValidationResponse(Val(call).response))
    /\ UNCHANGED <<cacheInstance, lastSet, serviceInstance, config, faults, citations, paragraphs, mode, concurrencyLimit, progress, docpc,
                   batchStart, batches, tasks, results, completed, reports, cache,
                   now, ttlMs, corpus, lookups, call>>

(***************************************************************************)
(* parseCitations.  A document text is a sequence of characters; "p42"     *)
(* stands for a page reference such as ", p. 42" (a run without brackets,  *)
(* "@" or letters that could continue a key), "page" for the letters       *)
(* p-a-g-e, "7" for a digit and ";" for a separator.  Offsets are 0-based, *)
(* the end offset is exclusive.                                            *)
(***************************************************************************)
IsLetter(c) == c \in {"k", "page"}
IsKeyChar(c) == c \in {"k", "page", "7"}

\* a citation key starts at p: "@" followed by a letter
KeyStartsAt(text, p) ==
    /\ p \in DOMAIN text /\ text[p] = "@"
    /\ p + 1 \in DOMAIN text /\ IsLetter(text[p + 1])

\* the last character of the key whose "@" is at p, not beyond hi
RECURSIVE KeyEnd(_, _, _)
KeyEnd(text, e, hi) ==
    IF e + 1 <= hi /\ IsKeyChar(text[e + 1]) THEN KeyEnd(text, e + 1, hi) ELSE e

\* \d+ at the head of s: the number of digits it takes
RECURSIVE DigitRun(_)
DigitRun(s) ==
    IF s # <<>> /\ Head(s) = "7" THEN 1 + DigitRun(Tail(s)) ELSE 0

\* the string of n digits
Digits(n) == <<"7", "77", "777", "7777", "77777", "777777">>[n]

\* PAGE_REF_PATTERN.exec(citationText): the first page reference.  The
\* pattern is not anchored at a word boundary: "page" directly followed by
\* digits matches wherever it stands.
RECURSIVE extractPageRef(_)
extractPageRef(citationText) ==
    IF citationText = <<>> THEN None
    ELSE IF Head(citationText) = "p42" THEN Some("42")
    ELSE IF Head(citationText) = "page" /\ DigitRun(Tail(citationText)) > 0
         THEN Some(Digits(DigitRun(Tail(citationText))))
    ELSE extractPageRef(Tail(citationText))

\* BRACKET_CITATION_PATTERN matched at i: the index of the closing bracket,
\* which is the first "]" after i, provided a key stands in between; else 0
BracketEndAt(text, i) ==
    LET closes == {j \in DOMAIN text : j > i /\ text[j] = "]"}
        j == CHOOSE c \in closes : \A d \in closes : c <= d
    IN IF text[i] # "[" \/ closes = {} THEN 0
       ELSE IF \E q \in (i + 1)..(j - 2) : KeyStartsAt(text, q) THEN j
       ELSE 0

\* innerContent.matchAll(key pattern): one bracket citation per key
RECURSIVE BracketKeys(_, _, _, _, _)
BracketKeys(text, i, j, pos, acc) ==
    IF pos >= j THEN acc
    ELSE IF KeyStartsAt(text, pos) /\ pos + 1 < j
         THEN LET e == KeyEnd(text, pos + 1, j - 1)
              IN BracketKeys(text, i, j, e + 1,
                     Append(acc, [key |-> SubSeq(text, pos + 1, e),
                                  fullText |-> SubSeq(text, i, j),
                                  range |-> [start |-> i - 1, end |-> j],
                                  pageRef |-> extractPageRef(SubSeq(text, i + 1, j - 1)),
                                  type |-> "bracket"]))
         ELSE BracketKeys(text, i, j, pos + 1, acc)

\* the first loop of parseCitations: BRACKET_CITATION_PATTERN.exec from pos
RECURSIVE BracketPass(_, _, _)
BracketPass(text, pos, acc) ==
    IF pos > Len(text) THEN acc
    ELSE LET j == BracketEndAt(text, pos)
         IN IF j = 0 THEN BracketPass(text, pos + 1, acc)
            ELSE BracketPass(text, j + 1, BracketKeys(text, pos, j, pos + 1, acc))

\* isCitationInsideBracket: the forward loop from the position
RECURSIVE ClosesBefore(_, _)
ClosesBefore(text, j) ==
    IF j > Len(text) THEN FALSE
    ELSE IF text[j] = "[" THEN FALSE
    ELSE IF text[j] = "]" THEN TRUE
    ELSE ClosesBefore(text, j + 1)

\* isCitationInsideBracket: the backward loop from position - 1
RECURSIVE InsideFrom(_, _, _, _)
InsideFrom(text, position, i, bracketDepth) ==
    IF i < 1 THEN FALSE
    ELSE IF text[i] = "]" THEN InsideFrom(text, position, i - 1, bracketDepth + 1)
    ELSE IF text[i] = "["
         THEN IF bracketDepth = 0 THEN ClosesBefore(text, position)
              ELSE InsideFrom(text, position, i - 1, bracketDepth - 1)
    ELSE InsideFrom(text, position, i - 1, bracketDepth)

isCitationInsideBracket(text, position) == InsideFrom(text, position, position - 1, 0)

\* the second loop of parseCitations: CITATION_KEY_PATTERN.exec from pos
RECURSIVE InlinePass(_, _, _)
InlinePass(text, pos, acc) ==
    IF pos > Len(text) THEN acc
    ELSE IF KeyStartsAt(text, pos)
         THEN LET e == KeyEnd(text, pos + 1, Len(text))
              IN InlinePass(text, e + 1,
                     IF isCitationInsideBracket(text, pos) THEN acc
                     ELSE Append(acc, [key |-> SubSeq(text, pos + 1, e),
                                       fullText |-> SubSeq(text, pos, e),
                                       range |-> [start |-> pos - 1, end |-> e],
                                       pageRef |-> None,
                                       type |-> "inline"]))
         ELSE InlinePass(text, pos + 1, acc)

parseCitationsInlineFirst(text) == BracketPass(text, 1, InlinePass(text, 1, <<>>))

parseCitations(text) == InlinePass(text, 1, BracketPass(text, 1, <<>>))

ParseCitationsCall ==
    /\ IsSome(call) /\ Val(call).fn = "parseCitations"
    /\ ret = None
    /\ ret' = Some(parseCitations(Val(call).text))
    /\ UNCHANGED <<cacheInstance, lastSet, serviceInstance, config, faults, citations, paragraphs, mode, concurrencyLimit, progress, docpc,
                   batchStart, batches, tasks, results, completed, reports, cache,
                   now, ttlMs, corpus, lookups, call>>

(***************************************************************************)
(* parseParagraphs.  A document is the sequence of its lines, the pieces   *)
(* of text.split('\n'); a line is one of a few texts that the segmenter    *)
(* tells apart.  The line of three quotes stands for three backquotes.     *)
(***************************************************************************)
Lines == {"---", "...", "'''", "~~~", " # H", "", "  ", "A", "Bb"}

\* line.trim()
Trim(line) ==
    CASE line = "  " -> ""
      [] line = " # H" -> "# H"
      [] OTHER -> line

\* line.length
Length(line) ==
    CASE line = "" -> 0
      [] line = "A" -> 1
      [] line \in {"Bb", "  "} -> 2
      [] line \in {"---", "...", "'''", "~~~"} -> 3
      [] OTHER -> 4

\* trimmedLine.startsWith of a fence, of "#"
StartsWithFence(trimmedLine) == trimmedLine \in {"'''", "~~~"}
StartsWithHash(trimmedLine) == trimmedLine = "# H"

\* lines.join('\n')
RECURSIVE Join(_)
Join(lines) ==
    IF Len(lines) <= 1 THEN lines
    ELSE <<Head(lines), "\n">> \o Join(Tail(lines))

Position(line, character) == [line |-> line, character |-> character]

\* Position.isBeforeOrEqual
IsBeforeOrEqual(a, b) ==
    a.line < b.line \/ (a.line = b.line /\ a.character <= b.character)

\* createParagraph
createParagraph(lines, startLine) ==
    LET endLine == startLine + Len(lines) - 1
    IN [text |-> Join(lines),
        range |-> [start |-> Position(startLine, 0),
                   end |-> Position(endLine, Length(lines[Len(lines)]))],
        citations |-> <<>>]

\* paragraphs.push(createParagraph(...)); currentParagraph = [] when a
\* paragraph is being built
Flush(st) ==
    IF Len(st.currentParagraph) > 0
    THEN [st EXCEPT !.paragraphs = Append(@, createParagraph(st.currentParagraph,
                                                             st.paragraphStartLine)),
                    !.currentParagraph = <<>>]
    ELSE st

\* the loop body with a closing fence that leaves the paragraph open
LineStepKeepsAcrossFence(line, i, st) ==
    LET trimmedLine == Trim(line)
    IN IF i = 0 /\ trimmedLine = "---" THEN [st EXCEPT !.inFrontmatter = TRUE]
       ELSE IF st.inFrontmatter
            THEN IF trimmedLine \in {"---", "..."}
                 THEN [st EXCEPT !.inFrontmatter = FALSE]
                 ELSE st
       ELSE IF StartsWithFence(trimmedLine)
            THEN [st EXCEPT !.inCodeBlock = ~st.inCodeBlock]
       ELSE IF st.inCodeBlock THEN st
       ELSE IF StartsWithHash(trimmedLine) THEN Flush(st)
       ELSE IF trimmedLine = "" THEN Flush(st)
       ELSE [st EXCEPT !.paragraphStartLine =
                           IF Len(st.currentParagraph) = 0 THEN i ELSE @,
                       !.currentParagraph = Append(@, line)]

\* the body of the loop over the lines
LineStep(line, i, st) ==
    LET trimmedLine == Trim(line)
    IN IF i = 0 /\ trimmedLine = "---" THEN [st EXCEPT !.inFrontmatter = TRUE]
       ELSE IF st.inFrontmatter
            THEN IF trimmedLine \in {"---", "..."}
                 THEN [st EXCEPT !.inFrontmatter = FALSE]
                 ELSE st
       ELSE IF StartsWithFence(trimmedLine)
            THEN LET toggled == [st EXCEPT !.inCodeBlock = ~st.inCodeBlock]
                 IN IF ~toggled.inCodeBlock THEN Flush(toggled) ELSE toggled
       ELSE IF st.inCodeBlock THEN st
       ELSE IF StartsWithHash(trimmedLine) THEN Flush(st)
       ELSE IF trimmedLine = "" THEN Flush(st)
       ELSE [st EXCEPT !.paragraphStartLine =
                           IF Len(st.currentParagraph) = 0 THEN i ELSE @,
                       !.currentParagraph = Append(@, line)]

RECURSIVE LineLoop(_, _, _)
LineLoop(lines, i, st) ==
    IF i >= Len(lines) THEN Flush(st).paragraphs
    ELSE LineLoop(lines, i + 1, LineStep(lines[i + 1], i, st))

parseParagraphs(lines) ==
    LineLoop(lines, 0, [paragraphs |-> <<>>, currentParagraph |-> <<>>,
                        paragraphStartLine |-> 0, inCodeBlock |-> FALSE,
                        inFrontmatter |-> FALSE])

\* Range.contains(range)
Contains(outer, inner) ==
    IsBeforeOrEqual(outer.start, inner.start) /\ IsBeforeOrEqual(inner.end, outer.end)

\* a paragraph that claims every citation it overlaps
paragraphIntersectsCitation(paragraph, citation) ==
    /\ IsBeforeOrEqual(paragraph.range.start, citation.range.end)
    /\ IsBeforeOrEqual(citation.range.start, paragraph.range.end)

paragraphContainsCitation(paragraph, citation) ==
    Contains(paragraph.range, citation.range)

\* citations.filter(...)
RECURSIVE Filter(_, _)
Filter(cs, paragraph) ==
    IF cs = <<>> THEN <<>>
    ELSE (IF paragraphContainsCitation(paragraph, Head(cs)) THEN <<Head(cs)>> ELSE <<>>)
         \o Filter(Tail(cs), paragraph)

associateCitationsWithParagraphs(ps, cs) ==
    [x \in DOMAIN ps |-> [ps[x] EXCEPT !.citations = Filter(cs, ps[x])]]

ParseParagraphsCall ==
    /\ IsSome(call) /\ Val(call).fn = "parseParagraphs"
    /\ ret = None
    /\ ret' = Some(parseParagraphs(Val(call).lines))
    /\ UNCHANGED <<cacheInstance, lastSet, serviceInstance, config, faults, citations, paragraphs, mode, concurrencyLimit, progress, docpc,
                   batchStart, batches, tasks, results, completed, reports, cache,
                   now, ttlMs, corpus, lookups, call>>

\* the two parser calls of the validation commands
AssociateCall ==
    /\ IsSome(call) /\ Val(call).fn = "associateCitationsWithParagraphs"
    /\ ret = None
    /\ ret' = Some(associateCitationsWithParagraphs(parseParagraphs(Val(call).lines),
                                                    Val(call).citations))
    /\ UNCHANGED <<cacheInstance, lastSet, serviceInstance, config, faults, citations, paragraphs, mode, concurrencyLimit, progress, docpc,
                   batchStart, batches, tasks, results, completed, reports, cache,
                   now, ttlMs, corpus, lookups, call>>

(***************************************************************************)
(* The cache service used on its own: getCacheService, resetCacheService   *)
(* and the methods of the shared instance.  Each call is synchronous, so   *)
(* one action is one call; call and ret hold the last call and its result. *)
(***************************************************************************)
\* every recorded set is marked as removed from the map
Removed(sets) ==
    [k \in DOMAIN sets |->
        IF IsSome(sets[k]) THEN Some([Val(sets[k]) EXCEPT !.removed = TRUE]) ELSE None]

\* getCacheService(ttlSeconds?)
GetCacheService(ttlSeconds) ==
    /\ IF ~IsSome(cacheInstance.instance)
       THEN /\ cacheInstance.created < MaxCacheInstances
            /\ cacheInstance' = [instance |-> Some(cacheInstance.created + 1),
                                 created |-> cacheInstance.created + 1]
            /\ cache' = EmptyCache
            /\ ttlMs' = NewTtlMs(ttlSeconds)
       ELSE /\ ttlMs' = IF IsSome(ttlSeconds) THEN setTTL(ttlMs, Val(ttlSeconds)) ELSE ttlMs
            /\ UNCHANGED <<cacheInstance, cache>>
    /\ call' = Some([fn |-> "getCacheService", ttlSeconds |-> ttlSeconds, at |-> now])
    /\ ret' = Some(cacheInstance'.instance)
    /\ UNCHANGED <<docVars, now, corpus, lookups, lastSet, serviceInstance, config, faults>>

\* resetCacheService()
ResetCacheService ==
    /\ cacheInstance' = [cacheInstance EXCEPT !.instance = None]
    /\ cache' = CacheClear(cache)
    /\ lastSet' = Removed(lastSet)
    /\ call' = Some([fn |-> "resetCacheService", at |-> now])
    /\ ret' = Some(None)
    /\ UNCHANGED <<docVars, now, ttlMs, corpus, lookups, serviceInstance, config, faults>>

\* cache.set(key, value) on the shared instance
Set(key, value) ==
    /\ IsSome(cacheInstance.instance)
    /\ cache' = CacheSet(cache, now, ttlMs, key, value)
    /\ lastSet' = [lastSet EXCEPT ![key] = Some([value |-> value, at |-> now,
                                                 ttl |-> ttlMs, removed |-> FALSE])]
    /\ call' = Some([fn |-> "set", key |-> key, value |-> value, at |-> now])
    /\ ret' = Some(None)
    /\ UNCHANGED <<docVars, now, ttlMs, corpus, lookups, cacheInstance, serviceInstance,
                   config, faults>>

\* cache.get(key)
Get(key) ==
    /\ IsSome(cacheInstance.instance)
    /\ cache' = CacheAfterGet(cache, now, key)
    /\ call' = Some([fn |-> "get", key |-> key, at |-> now])
    /\ ret' = Some(CacheGet(cache, now, key))
    /\ UNCHANGED <<docVars, now, ttlMs, corpus, lookups, cacheInstance, lastSet,
                   serviceInstance, config, faults>>

\* cache.has(key)
Has(key) ==
    /\ IsSome(cacheInstance.instance)
    /\ cache' = CacheAfterGet(cache, now, key)
    /\ call' = Some([fn |-> "has", key |-> key, at |-> now])
    /\ ret' = Some(has(cache, now, key))
    /\ UNCHANGED <<docVars, now, ttlMs, corpus, lookups, cacheInstance, lastSet,
                   serviceInstance, config, faults>>

\* cache.delete(key)
Delete(key) ==
    /\ IsSome(cacheInstance.instance)
    /\ cache' = CacheDelete(cache, key)
    /\ lastSet' = [lastSet EXCEPT ![key] = Removed(lastSet)[key]]
    /\ call' = Some([fn |-> "delete", key |-> key, at |-> now])
    /\ ret' = Some(key \in DOMAIN cache)
    /\ UNCHANGED <<docVars, now, ttlMs, corpus, lookups, cacheInstance, serviceInstance,
                   config, faults>>

\* cache.clear(): the clearCache command and the configuration handler
Clear ==
    /\ IsSome(cacheInstance.instance)
    /\ cache' = CacheClear(cache)
    /\ lastSet' = Removed(lastSet)
    /\ call' = Some([fn |-> "clear", at |-> now])
    /\ ret' = Some(None)
    /\ UNCHANGED <<docVars, now, ttlMs, corpus, lookups, cacheInstance, serviceInstance,
                   config, faults>>

\* cache.prune()
Prune ==
    /\ IsSome(cacheInstance.instance)
    /\ cache' = CachePrune(cache, now)
    /\ call' = Some([fn |-> "prune", at |-> now])
    /\ ret' = Some(Cardinality(DOMAIN cache \ DOMAIN CachePrune(cache, now)))
    /\ UNCHANGED <<docVars, now, ttlMs, corpus, lookups, cacheInstance, lastSet,
                   serviceInstance, config, faults>>

\* cache.stats()
Stats ==
    /\ IsSome(cacheInstance.instance)
    /\ call' = Some([fn |-> "stats", at |-> now])
    /\ ret' = Some(stats(cache, ttlMs))
    /\ UNCHANGED <<docVars, cache, now, ttlMs, corpus, lookups, cacheInstance, lastSet,
                   serviceInstance, config, faults>>

\* a second passes
Elapse ==
    /\ now < MaxTime * 1000
    /\ now' = now + 1000
    /\ UNCHANGED <<docVars, cache, ttlMs, corpus, lookups, call, ret, cacheInstance,
                   lastSet, serviceInstance, config, faults>>

\* time passes
Tick ==
    /\ now < MaxTime
    /\ now' = now + 1
    /\ UNCHANGED <<cacheInstance, lastSet, serviceInstance, config, faults, lookups, call, ret, citations, paragraphs, mode, concurrencyLimit, progress, docpc,
                   batchStart, batches, tasks, results, completed, reports, cache,
                   ttlMs, corpus>>

(***************************************************************************)
(* Specifications                                                          *)
(***************************************************************************)
Entry(entryType, hasFile) == Some([entryType |-> entryType, hasFile |-> hasFile])

\* k1 is a book with a readable text, k2 is not in the corpus
CorpusBook == [k \in Keys |-> IF k = "k1" THEN Entry("book", TRUE) ELSE None]
\* k1 is a paper without a text, k2 is a media entry with one
CorpusPaperMedia ==
    [k \in Keys |-> IF k = "k1" THEN Entry("paper", FALSE) ELSE Entry("media", TRUE)]

RECURSIVE SeqsUpTo(_, _)
SeqsUpTo(S, n) ==
    IF n = 0 THEN {<<>>}
    ELSE LET shorter == SeqsUpTo(S, n - 1)
         IN shorter \cup {Append(s, x) : s \in {q \in shorter : Len(q) = n - 1}, x \in S}

\* the citations of the documents validated as a whole
DocCitations ==
    { InFirst("k1", Some("42")), InSecond("k2", None), Orphan("k2", None) }

\* the singletons as activation leaves them, the shipped settings, and
\* collaborators that work
DefaultSettings ==
    /\ cacheInstance = [instance |-> Some(1), created |-> 1]
    /\ lastSet = <<>>
    /\ serviceInstance = [modelId |-> ModelId]
    /\ config = [model |-> ModelId]
    /\ faults = {}

TypeInit ==
    /\ paragraphs = DocParagraphs
    /\ docpc = "start"
    /\ batchStart = 0
    /\ batches = <<>>
    /\ tasks = [i \in 1..Len(citations) |-> IdleTask]
    /\ results = [i \in 1..Len(citations) |-> None]
    /\ completed = 0
    /\ reports = <<>>
    /\ cache = EmptyCache
    /\ now = 0
    /\ lookups = <<>>
    /\ call = None
    /\ ret = None

Init ==
    /\ \/ /\ mode = "all"
          /\ concurrencyLimit = 1
          /\ citations \in SeqsUpTo(DocCitations, MaxInFlight)
       \/ /\ mode = "bounded"
          /\ concurrencyLimit \in 1..MaxInFlight
          /\ citations \in SeqsUpTo(DocCitations, MaxCitations)
    /\ progress = TRUE
    /\ ttlMs = 1
    /\ DefaultSettings
    /\ corpus = CorpusBook
    /\ TypeInit

TaskStep(i) ==
    \/ PaperWithQuotesDone(i)
    \/ KeywordsDone(i)
    \/ GatherJoin(i)
    \/ FileContentDone(i)
    \/ KeywordFragmentsDone(i)
    \/ SemanticFragmentsDone(i)
    \/ EvidenceJoin(i)
    \/ OracleDone(i)

Next ==
    \/ ValidateDocument
    \/ DocumentResolve
    \/ ValidateDocumentBounded
    \/ BatchJoin
    \/ \E i \in DOMAIN tasks : TaskStep(i)

Spec == Init /\ [][Next]_vars

\* Validations run strictly one after the other (a limit of 1), over a
\* wider range of citations and corpora, with and without a reporter.
SeqCitations ==
    { InFirst("k1", None), InFirst("k1", Some("42")), InSecond("k1", None),
      InFirst("k2", None), Orphan("k1", None) }

InitSeq ==
    /\ mode = "bounded"
    /\ concurrencyLimit = 1
    /\ citations \in SeqsUpTo(SeqCitations, MaxSeqCitations)
    /\ progress \in BOOLEAN
    /\ ttlMs = 1
    /\ DefaultSettings
    /\ corpus \in {CorpusBook, CorpusPaperMedia}
    /\ TypeInit

NextSeq ==
    \/ ValidateDocumentBounded
    \/ BatchJoin
    \/ \E i \in DOMAIN tasks : TaskStep(i)

SpecSeq == InitSeq /\ [][NextSeq]_vars

\* Repeated validations of one claim, one after the other, while time passes
\* and cache entries expire.
TtlCitations == { InFirst("k1", None), InFirst("k1", Some("42")) }

InitTtl ==
    /\ mode = "bounded"
    /\ concurrencyLimit = 1
    /\ citations \in SeqsUpTo(TtlCitations, MaxTtlCitations)
    /\ progress = TRUE
    /\ ttlMs = 1
    /\ DefaultSettings
    /\ corpus = CorpusBook
    /\ TypeInit

NextTtl ==
    \/ ValidateDocumentBounded
    \/ BatchJoin
    \/ Tick
    \/ \E i \in DOMAIN tasks : TaskStep(i)

SpecTtl == InitTtl /\ [][NextTtl]_vars

\* Validations one after the other with the oracle modelled from the Bedrock
\* reply onwards: the reply text is parsed before the result is assembled.
OracleCitations == { InFirst("k1", Some("42")), InFirst("k2", None), Orphan("k1", None) }

InitOracle ==
    /\ mode = "bounded"
    /\ concurrencyLimit = 1
    /\ citations \in SeqsUpTo(OracleCitations, MaxOracleCitations)
    /\ progress = TRUE
    /\ ttlMs = 1
    /\ DefaultSettings
    /\ corpus = CorpusBook
    /\ TypeInit

OracleTaskStep(i) ==
    \/ PaperWithQuotesDone(i)
    \/ KeywordsDone(i)
    \/ GatherJoin(i)
    \/ FileContentDone(i)
    \/ KeywordFragmentsDone(i)
    \/ SemanticFragmentsDone(i)
    \/ EvidenceJoin(i)
    \/ OracleResponds(i)

NextOracle ==
    \/ ValidateDocumentBounded
    \/ BatchJoin
    \/ \E i \in DOMAIN tasks : OracleTaskStep(i)

SpecOracle == InitOracle /\ [][NextOracle]_vars

\* No document is under validation.
NoDocument ==
    /\ citations = <<>>
    /\ paragraphs = DocParagraphs
    /\ mode = "bounded"
    /\ concurrencyLimit = 1
    /\ progress = FALSE
    /\ docpc = "done"
    /\ batchStart = 0
    /\ batches = <<>>
    /\ tasks = <<>>
    /\ results = <<>>
    /\ completed = 0
    /\ reports = <<>>
    /\ now = 0
    /\ ttlMs = 1
    /\ DefaultSettings

\* Entry lookups made directly on the adapter, over every placement of the
\* two keys in the corpus.
Corpora == [Keys -> {None} \cup {Entry(entryType, TRUE) : entryType \in Range(ENTRY_TYPES)}]

InitEntry ==
    /\ NoDocument
    /\ cache = EmptyCache
    /\ corpus \in Corpora
    /\ lookups = [j \in 1..MaxLookups |-> IdleLookup]
    /\ call = None
    /\ ret = None

NextEntry ==
    \/ \E j \in DOMAIN lookups, entryId \in Keys : GetPaper(j, entryId)
    \/ \E j \in DOMAIN lookups : ShowSettled(j)

SpecEntry == InitEntry /\ [][NextEntry]_vars

\* The pure functions, each applied once to arguments drawn from small sets.
Fragments == {Frag(lineStart, src) : lineStart \in {2, 5, 10}, src \in {"first", "second"}}
FragmentLists == SeqsUpTo(Fragments, MaxFragments)

ModelIds ==
    { ModelId,
      <<"us.", "anthropic.", "claude-", "opus", "-4-1">>,
      <<"Anthropic.", "Claude-", "Opus", "-4">>,
      <<"claude-", "haiku", "-4-5">>,
      <<"eu.", "anthropic.", "claude-", "HAIKU">>,
      <<"claude-", "haiku", "+", "claude-", "opus">>,
      <<"anthropic.", "claude-", "haiku", "+", "claude-", "sonnet">>,
      <<"anthropic.", "claude-", "3-", "opus", "-20240229-v1:0">>,
      <<"anthropic.", "claude-", "3-", "haiku", "-20240307-v1:0">>,
      <<"amazon.", "nova", "-pro">> }

TokenUsages ==
    [inputTokens : {0, 1200, 2000000}, outputTokens : {0, 300, 1000000}]

\* the objects a response may carry, well-formed or not
ResponseObjects ==
    [status : {None, Some(""), Some("supported"), Some("partial"),
               Some("not_supported"), Some("maybe")},
     confidence : {None} \cup {Some([type |-> "number", n |-> n]) : n \in {-300, 50, 150}}
                  \cup {Some([type |-> "string", n |-> 0]), Some([type |-> "NaN", n |-> 0])},
     explanation : {None, Some(<<>>), Some(<<"because">>)},
     supportingQuoteIndices : {None, Some(<<2, 1>>)},
     rephrase : {None, Some("tighter wording")},
     tokenUsage : {None, Some([inputTokens |-> 1200, outputTokens |-> 300])}]

\* what may stand before and after the object in the response text
Prefixes ==
    { <<>>, <<Prose("Here is my assessment: ")>>, <<Prose("json fence: ")>>,
      <<Prose("Verdict "), LBrace, Prose("final"), RBrace, Prose(": ")>> }
Suffixes ==
    { <<>>, <<Prose(" :end of fence")>>, <<Prose(" (confidence in "), LBrace, Prose("0..1"), RBrace>>,
      <<Prose(" or "), LBrace, Members([EmptyObject EXCEPT !.status = Some("partial")]),
        RBrace>> }

ParseCalls ==
    { [fn |-> "parseValidationResponse", prefix |-> prefix, object |-> object,
       suffix |-> suffix, response |-> ResponseText(prefix, object, suffix)] :
         prefix \in Prefixes, suffix \in Suffixes,
         object \in {None} \cup {Some(x) : x \in ResponseObjects} }

PureCalls ==
    [fn : {"combineFragments"}, keywordFragments : FragmentLists,
     semanticFragments : FragmentLists]
    \cup [fn : {"mergeKeywordFragments"}, fragmentArrays : SeqsUpTo(FragmentLists, 2)]
    \cup [fn : {"calculateCost"}, tokenUsage : TokenUsages, modelId : ModelIds]
    \cup ParseCalls

InitPure ==
    /\ NoDocument
    /\ cache = EmptyCache
    /\ corpus = CorpusBook
    /\ lookups = <<>>
    /\ call \in {Some(c) : c \in PureCalls}
    /\ ret = None

NextPure ==
    \/ CombineFragmentsCall
    \/ MergeKeywordFragmentsCall
    \/ CalculateCostCall
    \/ ParseValidationResponseCall

SpecPure == InitPure /\ [][NextPure]_vars

\* The document parsers, each applied once to a document drawn from every
\* text up to a length.
Chars == {"[", "]", "@", "k", "p42"}

\* prose, a blank line, prose, a fenced block of one line, prose
FencedExample == <<"A", "", "Bb", "'''", "A", "'''", "Bb">>

Documents == (SeqsUpTo(Lines, MaxLines) \ {<<>>}) \cup {FencedExample}

\* citation ranges that start at a line's first column and end on the same
\* line or on one of the next two
CitationRanges ==
    {MkCitation("k1", Position(l, 0), Position(l + d, c), None) :
        l \in 0..(MaxAssociateLines - 1), d \in 0..2, c \in 1..2}

AssociateCalls ==
    {c \in [fn : {"associateCitationsWithParagraphs"},
            lines : SeqsUpTo(Lines, MaxAssociateLines) \ {<<>>},
            citations : {<<r>> : r \in CitationRanges}] :
        c.citations[1].range.start.line < Len(c.lines)}

DocCalls ==
    [fn : {"parseCitations"}, text : SeqsUpTo(Chars, MaxDocLen)]
    \cup [fn : {"parseParagraphs"}, lines : Documents]
    \cup AssociateCalls

InitDoc ==
    /\ NoDocument
    /\ cache = EmptyCache
    /\ corpus = CorpusBook
    /\ lookups = <<>>
    /\ call \in {Some(c) : c \in DocCalls}
    /\ ret = None

NextDoc ==
    \/ ParseCitationsCall
    \/ ParseParagraphsCall
    \/ AssociateCall

SpecDoc == InitDoc /\ [][NextDoc]_vars

\* The cache service on its own: no singleton exists yet; keys, values and
\* time-to-live arguments come from small sets.
CacheKeys == {"a", "b"}
CacheValues == {"v1", "v2"}
TtlSeconds == {None, Some(0), Some(1)}

InitCache ==
    /\ citations = <<>>
    /\ paragraphs = DocParagraphs
    /\ mode = "bounded"
    /\ concurrencyLimit = 1
    /\ progress = FALSE
    /\ docpc = "done"
    /\ batchStart = 0
    /\ batches = <<>>
    /\ tasks = <<>>
    /\ results = <<>>
    /\ completed = 0
    /\ reports = <<>>
    /\ now = 0
    /\ corpus = CorpusBook
    /\ lookups = <<>>
    /\ call = None
    /\ ret = None
    /\ cacheInstance = [instance |-> None, created |-> 0]
    /\ cache = EmptyCache
    /\ ttlMs = NewTtlMs(None)
    /\ lastSet = [k \in CacheKeys |-> None]
    /\ serviceInstance = [modelId |-> ModelId]
    /\ config = [model |-> ModelId]
    /\ faults = {}

NextCache ==
    \/ \E ttlSeconds \in TtlSeconds : GetCacheService(ttlSeconds)
    \/ ResetCacheService
    \/ \E key \in CacheKeys, value \in CacheValues : Set(key, value)
    \/ \E key \in CacheKeys : Get(key)
    \/ \E key \in CacheKeys : Has(key)
    \/ \E key \in CacheKeys : Delete(key)
    \/ Clear
    \/ Prune
    \/ Stats
    \/ Elapse

SpecCache == InitCache /\ [][NextCache]_vars

\* Validations one after the other while the clearCache command may run at
\* any moment; no time passes, so nothing expires.
ClearCitations == { InFirst("k1", None), InFirst("k1", Some("42")) }

InitClear ==
    /\ mode = "bounded"
    /\ concurrencyLimit = 1
    /\ citations \in SeqsUpTo(ClearCitations, MaxClearCitations)
    /\ progress = FALSE
    /\ ttlMs = 1
    /\ DefaultSettings
    /\ corpus = CorpusBook
    /\ TypeInit

NextClear ==
    \/ ValidateDocumentBounded
    \/ BatchJoin
    \/ Clear
    \/ \E i \in DOMAIN tasks : TaskStep(i)

SpecClear == InitClear /\ [][NextClear]_vars

\* Validations of an entry that is found while any of the evidence
\* collaborators fails throughout.
AllFaults == {"extractKeywords", "readFile", "query", "semantic"}
DegradeCitations == { InFirst("k1", Some("42")), InFirst("k1", None) }

InitDegrade ==
    /\ mode = "bounded"
    /\ concurrencyLimit = 1
    /\ citations \in SeqsUpTo(DegradeCitations, MaxDegradeCitations)
    /\ progress = FALSE
    /\ ttlMs = 1
    /\ cacheInstance = [instance |-> Some(1), created |-> 1]
    /\ lastSet = <<>>
    /\ serviceInstance = [modelId |-> ModelId]
    /\ config = [model |-> ModelId]
    /\ faults \in SUBSET AllFaults
    /\ corpus = CorpusBook
    /\ TypeInit

NextDegrade ==
    \/ ValidateDocumentBounded
    \/ BatchJoin
    \/ \E i \in DOMAIN tasks : TaskStep(i)

SpecDegrade == InitDegrade /\ [][NextDegrade]_vars

\* Validations one after the other while the model setting may be changed
\* at any moment.
BedrockModels == { ModelId, <<"anthropic.", "claude-", "3-", "haiku", "-20240307-v1:0">> }
BedrockCitations == { InFirst("k1", Some("42")), InFirst("k2", None) }

InitBedrock ==
    /\ mode = "bounded"
    /\ concurrencyLimit = 1
    /\ citations \in SeqsUpTo(BedrockCitations, MaxBedrockCitations)
    /\ progress = FALSE
    /\ ttlMs = 1
    /\ cacheInstance = [instance |-> Some(1), created |-> 1]
    /\ lastSet = <<>>
    /\ config \in [model : BedrockModels]
    /\ serviceInstance = [modelId |-> config.model]
    /\ faults = {}
    /\ corpus = CorpusBook
    /\ TypeInit

BedrockTaskStep(i) ==
    \/ PaperWithQuotesDone(i)
    \/ KeywordsDone(i)
    \/ GatherJoin(i)
    \/ FileContentDone(i)
    \/ KeywordFragmentsDone(i)
    \/ SemanticFragmentsDone(i)
    \/ EvidenceJoinInvoke(i)
    \/ AccountIdResolved(i)
    \/ AccountIdFailed(i)
    \/ OracleDone(i)

NextBedrock ==
    \/ ValidateDocumentBounded
    \/ BatchJoin
    \/ \E model \in BedrockModels : ConfigurationChanged(model)
    \/ \E i \in DOMAIN tasks : BedrockTaskStep(i)

SpecBedrock == InitBedrock /\ [][NextBedrock]_vars

\* Both drivers over collaborators that work or that all fail, where every
\* continuation that is ready to run is eventually run by the event loop and
\* every external call eventually settles.
InitLive ==
    /\ \/ /\ mode = "all"
          /\ concurrencyLimit = 1
       \/ /\ mode = "bounded"
          /\ concurrencyLimit \in 1..MaxLiveCitations
    /\ citations \in SeqsUpTo(DocCitations, MaxLiveCitations)
    /\ progress = FALSE
    /\ ttlMs = 1
    /\ cacheInstance = [instance |-> Some(1), created |-> 1]
    /\ lastSet = <<>>
    /\ serviceInstance = [modelId |-> ModelId]
    /\ config = [model |-> ModelId]
    /\ faults \in {{}, AllFaults}
    /\ corpus = CorpusBook
    /\ TypeInit

\* as long as a continuation is ready to run or an external call is pending,
\* one of them is eventually run or settles
Fairness == WF_vars(Next)

SpecLive == InitLive /\ [][Next]_vars /\ Fairness

\* validateDocument, then validateDocumentWithConcurrencyLimit for the same
\* document on an empty cache, with collaborators whose answers depend on
\* their arguments only: the keyword model and the file read fail, the corpus
\* and the oracle answer by their arguments.
EquivCitations ==
    { InFirst("k1", Some("42")), InFirstAgain("k1", None), InSecond("k2", None),
      Orphan("k1", None) }

InitEquiv ==
    /\ mode = "all"
    /\ concurrencyLimit \in 1..MaxEquivCitations
    /\ citations \in SeqsUpTo(EquivCitations, MaxEquivCitations)
    /\ progress = TRUE
    /\ ttlMs = 1
    /\ cacheInstance = [instance |-> Some(1), created |-> 1]
    /\ lastSet = <<>>
    /\ serviceInstance = [modelId |-> ModelId]
    /\ config = [model |-> ModelId]
    /\ faults = {"extractKeywords", "readFile"}
    /\ corpus = CorpusBook
    /\ TypeInit

EquivTaskStep(i) ==
    \/ PaperWithQuotesDone(i)
    \/ KeywordsDone(i)
    \/ GatherJoin(i)
    \/ FileContentDone(i)
    \/ SemanticFragmentsDone(i)
    \/ EvidenceJoin(i)
    \/ OracleAnswers(i)

NextEquiv ==
    \/ ValidateDocument
    \/ DocumentResolve
    \/ CallBoundedVariant
    \/ ValidateDocumentBounded
    \/ BatchJoin
    \/ \E i \in DOMAIN tasks : EquivTaskStep(i)

SpecEquiv == InitEquiv /\ [][NextEquiv]_vars

\* Lookups made directly on the adapter while time passes.  k1 is a book
\* with a text on file, k2 a paper whose file is empty.
AdapterCorpus ==
    [k \in Keys |->
        IF k = "k1"
        THEN Some([entryType |-> "book", hasFile |-> TRUE, fileText |-> FileText(k)])
        ELSE Some([entryType |-> "paper", hasFile |-> TRUE, fileText |-> <<>>])]

InitAdapter ==
    /\ NoDocument
    /\ cache = EmptyCache
    /\ corpus = AdapterCorpus
    /\ lookups = <<>>
    /\ call = None
    /\ ret = None

NextAdapter ==
    \/ \E id \in Keys : GetPaperCall(id)
    \/ \E id \in Keys : GetQuotesCall(id)
    \/ \E id \in Keys : GetFileContentCall(id)
    \/ \E id \in Keys : QueryEntryCall(id, "learning")
    \/ \E id \in Keys : SemanticQueryEntryCall(id, TextAa)
    \/ Tick

SpecAdapter == InitAdapter /\ [][NextAdapter]_vars

\* validateDocumentWithConcurrencyLimit called with any integer limit.
LimitCitations == { InFirst("k1", None), Orphan("k2", None) }

InitLimit ==
    /\ mode = "bounded"
    /\ concurrencyLimit \in -2..2
    /\ citations \in SeqsUpTo(LimitCitations, MaxLimitCitations)
    /\ progress = TRUE
    /\ ttlMs = 1
    /\ DefaultSettings
    /\ corpus = CorpusBook
    /\ TypeInit

NextLimit ==
    \/ ValidateDocumentBounded
    \/ BatchJoinWithin
    \/ \E i \in DOMAIN tasks : TaskStep(i)

SpecLimit == InitLimit /\ [][NextLimit]_vars

(***************************************************************************)
(* Properties                                                              *)
(***************************************************************************)
Statuses == {"supported", "partial", "not_supported"}
InFlightPcs == {"gather1", "gather2", "oracle"}

\* the validation of citation i was a validateCitation call that returned
Returned(i) == tasks[i].pc = "done"
\* citation i has no enclosing paragraph
IsOrphan(i) == ~IsSome(FindParagraph(paragraphs, citations[i]))
\* the oracle call of validation i failed
OracleFailed(i) ==
    IsSome(tasks[i].oracleOutcome) /\ ~Val(tasks[i].oracleOutcome).ok
\* validation i ended because the entry was not found
EntryMissing(i) ==
    /\ Returned(i)
    /\ "getPaperWithQuotes" \in tasks[i].calls
    /\ "semanticQueryEntry" \notin tasks[i].calls
\* a not_supported result with confidence 0
IsTerminalFailure(r) == r.status = "not_supported" /\ r.confidence = 0

\* C1: validateDocument returns one result per input citation, and slot i
\* holds the value validateCitation returned for citations[i], whatever the
\* order in which the validations completed.
C1_ResultOrderMatchesInput ==
    mode = "all" =>
        /\ DOMAIN results = 1..Len(citations)
        /\ \A i \in DOMAIN results :
              IsSome(results[i]) => results[i] = tasks[i].out
        /\ docpc = "done" => \A i \in DOMAIN results : IsSome(results[i])

\* two validations of different keys completed in the reverse of input order
C1_Witness ==
    /\ mode = "all"
    /\ docpc = "done"
    /\ Len(citations) = 2
    /\ Returned(1) /\ Returned(2)
    /\ citations[1].key # citations[2].key
    /\ Len(reports) = 2
    /\ reports[1].key = citations[2].key

\* C2: neither document validation ever rejects; when it resolves, the array
\* has one filled slot per citation with a legal status, and every failure
\* (orphan, missing entry, failed oracle call or parse) is a not_supported
\* result.
C2_NeverRejectsFullArray ==
    /\ docpc # "rejected"
    /\ docpc = "done" =>
          /\ DOMAIN results = 1..Len(citations)
          /\ \A i \in DOMAIN results :
                /\ IsSome(results[i])
                /\ Val(results[i]).status \in Statuses
                /\ (IsOrphan(i) \/ EntryMissing(i) \/ OracleFailed(i))
                      => Val(results[i]).status = "not_supported"

\* a batched validation of three citations resolved although one oracle
\* call failed and one entry was missing
C2_Witness ==
    /\ docpc = "done"
    /\ mode = "bounded"
    /\ Len(citations) = 3
    /\ \E i, j \in DOMAIN tasks : OracleFailed(i) /\ EntryMissing(j)

\* C3: validateCitation never rejects; a failed oracle call or response
\* parse gives a not_supported result with confidence 0 whose explanation
\* contains the error message.
C3_ValidateCitationNeverThrows ==
    \A i \in DOMAIN tasks :
        /\ tasks[i].pc # "rejected"
        /\ OracleFailed(i) =>
              /\ Returned(i)
              /\ IsTerminalFailure(Val(tasks[i].out))
              /\ Val(tasks[i].oracleOutcome).message
                    \in Range(Val(tasks[i].out).explanation)

\* a validation returned after its response could not be parsed
C3_Witness ==
    \E i \in DOMAIN tasks :
        /\ Returned(i)
        /\ OracleFailed(i)
        /\ Val(tasks[i].oracleOutcome).message = "No JSON found in response"

\* the batch a citation belongs to, counted from 0
BatchOf(i) == (i - 1) \div concurrencyLimit
\* the size of batch k (counted from 1) of n citations under limit L
ExpectedBatchSize(k, n, L) == Min(L, n - (k - 1) * L)

\* C4: with n citations and limit L >= 1 the bounded validation runs
\* ceil(n/L) batches of size L (the last possibly smaller); no validation of
\* a later batch starts before every validation of the earlier batches has
\* completed; at most L validations are in flight; results follow the input
\* order.
C4_SequentialBatches ==
    mode = "bounded" =>
        /\ Cardinality({i \in DOMAIN tasks : tasks[i].pc \in InFlightPcs})
              <= concurrencyLimit
        /\ \A i, j \in DOMAIN tasks :
              (BatchOf(i) < BatchOf(j) /\ tasks[j].pc # "idle")
                  => IsSome(tasks[i].out)
        /\ \A k \in DOMAIN batches :
              batches[k] = ExpectedBatchSize(k, Len(citations), concurrencyLimit)
        /\ docpc = "done" =>
              /\ Len(batches) =
                    (Len(citations) + concurrencyLimit - 1) \div concurrencyLimit
              /\ \A i \in DOMAIN results : results[i] = tasks[i].out

\* three citations under limit 2 were validated in batches of 2 and 1
C4_Witness ==
    /\ mode = "bounded"
    /\ docpc = "done"
    /\ Len(citations) = 3
    /\ concurrencyLimit = 2
    /\ batches = <<2, 1>>
    /\ \A i \in DOMAIN tasks : Returned(i)

\* validations i and j are about the same (citation.key, paragraph.text)
SameClaim(i, j) ==
    /\ citations[i].key = citations[j].key
    /\ ParagraphOf(i).text = ParagraphOf(j).text
\* validation j started after validation i returned, within the TTL
WithinTtl(i, j) ==
    /\ i < j
    /\ Returned(i) /\ Returned(j)
    /\ tasks[j].startedAt <= tasks[i].returnedAt + ttlMs
OracleCalls(i) == IF "oracle" \in tasks[i].calls THEN 1 ELSE 0

EvidenceCalls ==
    {"oracle", "getFileContent", "queryEntryWithKeywords", "semanticQueryEntry"}

\* C6: when no corpus category yields the key, validateCitation returns
\* not_supported with confidence 0 and an explanation naming the key, and the
\* call never invokes the oracle nor the file-content, keyword-fragment or
\* semantic-fragment fetches.
C6_EntryMissingSkipsOracle ==
    \A i \in DOMAIN tasks :
        ~IsSome(corpus[citations[i].key]) =>
            /\ tasks[i].calls \cap EvidenceCalls = {}
            /\ Returned(i) =>
                  /\ IsTerminalFailure(Val(tasks[i].out))
                  /\ citations[i].key \in Range(Val(tasks[i].out).explanation)

\* a validation of a key the corpus lacks has returned
C6_Witness ==
    \E i \in DOMAIN tasks :
        /\ ~IsSome(corpus[citations[i].key])
        /\ Returned(i)
        /\ "getPaperWithQuotes" \in tasks[i].calls

\* C7: in both document validations a citation that no paragraph encloses
\* gets, as soon as its validation is started, a not_supported result with
\* confidence 0 and the paragraph-context explanation, and nothing is called
\* for it: no corpus, keyword or oracle call and no cache access.
C7_OrphanImmediateResult ==
    \A i \in DOMAIN tasks :
        (IsOrphan(i) /\ tasks[i].pc # "idle") =>
            /\ tasks[i].pc = "resolved"
            /\ tasks[i].calls = {}
            /\ IsSome(tasks[i].out)
            /\ IsTerminalFailure(Val(tasks[i].out))
            /\ Val(tasks[i].out).explanation = <<"Could not determine paragraph context">>
            /\ Val(tasks[i].out).citation = citations[i]

\* an orphan is resolved while another validation of its batch is in flight
C7_Witness ==
    \E i, j \in DOMAIN tasks :
        /\ IsOrphan(i)
        /\ tasks[i].pc = "resolved"
        /\ tasks[j].pc \in InFlightPcs
        /\ cache = EmptyCache

\* C8: validateDocument over n citations reports progress exactly n times,
\* the k-th report carrying counter k, and an increment of 100/n.
C8_ProgressOncePerCitation ==
    (mode = "all" /\ progress /\ docpc = "done") =>
        /\ Len(reports) = Len(citations)
        /\ \A k \in DOMAIN reports :
              /\ reports[k].completed = k
              /\ reports[k].increment = [num |-> 100, den |-> Len(citations)]

\* C9: in a validateCitation call that missed the validation cache and found
\* the entry, getFileContent is invoked exactly when the citation carries a
\* pageRef; a citation without one never triggers a file-content fetch.
C9_FileContentIffPageRef ==
    \A i \in DOMAIN tasks :
        /\ "semanticQueryEntry" \in tasks[i].calls =>
              ("getFileContent" \in tasks[i].calls <=> IsSome(citations[i].pageRef))
        /\ ~IsSome(citations[i].pageRef) => "getFileContent" \notin tasks[i].calls

\* one validation fetched the file for its page reference, another one
\* reached the oracle without a fetch
C9_Witness ==
    \E i, j \in DOMAIN tasks :
        /\ IsSome(citations[i].pageRef) /\ "getFileContent" \in tasks[i].calls
        /\ ~IsSome(citations[j].pageRef) /\ "oracle" \in tasks[j].calls

\* C10: in a validateCitation call that missed the validation cache and
\* found the entry, the keyword-fragment search is issued exactly when
\* keyword extraction returned at least one English or Dutch keyword; the
\* semantic-fragment search is always issued.
C10_KeywordSearchIffKeywords ==
    \A i \in DOMAIN tasks :
        /\ tasks[i].pc = "gather2" =>
              /\ "queryEntryWithKeywords" \in tasks[i].calls
                    <=> (Len(tasks[i].keywords.english) > 0
                         \/ Len(tasks[i].keywords.dutch) > 0)
              /\ tasks[i].kwf = "skipped"
                    <=> "queryEntryWithKeywords" \notin tasks[i].calls
              /\ "semanticQueryEntry" \in tasks[i].calls
        /\ "oracle" \in tasks[i].calls => "semanticQueryEntry" \in tasks[i].calls
        /\ "queryEntryWithKeywords" \in tasks[i].calls
              => "semanticQueryEntry" \in tasks[i].calls

\* only a Dutch keyword was extracted and the keyword search is under way
C10_Witness ==
    \E i \in DOMAIN tasks :
        /\ tasks[i].pc = "gather2"
        /\ tasks[i].keywords.english = <<>>
        /\ tasks[i].keywords.dutch # <<>>
        /\ tasks[i].kwf = "pending"


\* ---------------------------------------------------------------------------
\* C11: getPaper queries the categories in the order paper, book, media, one
\* command at a time, and stops at the first category that answers: no later
\* category is queried, the entry found is stored under entry:{key}, and
\* when all three miss the call returns undefined instead of failing.
C11_ProbesInOrderFirstHitWins ==
    \A j \in DOMAIN lookups :
        LET lk == lookups[j]
            n == Len(lk.commands)
        IN /\ lk.pc \in {"idle", "probing", "returned"}
           /\ lk.commands = SubSeq(<<"paper", "book", "media">>, 1, n)
           /\ lk.pc = "probing" => lk.pos = n
           \* every category queried before the last one missed
           /\ \A x \in 1..(n - 1) : ~ShowSucceeds(corpus, lk.commands[x], lk.entryId)
           /\ (lk.pc = "returned" /\ ~lk.cached) =>
                 IF IsSome(corpus[lk.entryId])
                 THEN /\ lk.value = Some(PaperOf(corpus, lk.entryId))
                      /\ lk.commands[n] = Val(corpus[lk.entryId]).entryType
                      /\ EntryKey(lk.entryId) \in DOMAIN cache
                      /\ cache[EntryKey(lk.entryId)].value = Val(lk.value)
                 ELSE /\ lk.value = None
                      /\ n = 3
           /\ (lk.pc = "returned" /\ lk.cached) =>
                 /\ n = 0
                 /\ lk.value = Some(PaperOf(corpus, lk.entryId))

\* a key held only under book: paper missed, book answered, media never asked
C11_Witness ==
    \E j \in DOMAIN lookups :
        /\ lookups[j].pc = "returned"
        /\ corpus[lookups[j].entryId] = Entry("book", TRUE)
        /\ lookups[j].commands = <<"paper", "book">>
        /\ \E h \in DOMAIN lookups :
              /\ lookups[h].pc = "returned"
              /\ lookups[h].value = None
              /\ lookups[h].commands = <<"paper", "book", "media">>


\* the first fragment of frs whose line_start is l
FirstWith(frs, l) ==
    frs[CHOOSE x \in DOMAIN frs :
            /\ frs[x].line_start = l
            /\ \A y \in 1..(x - 1) : frs[y].line_start # l]

\* out is the aggregation of the concatenated input
IsAggregationOf(out, input) ==
    /\ \A x \in 1..(Len(out) - 1) : out[x].line_start < out[x + 1].line_start
    /\ {out[x].line_start : x \in DOMAIN out} = {input[x].line_start : x \in DOMAIN input}
    /\ \A x \in DOMAIN out : out[x] = FirstWith(input, out[x].line_start)

\* ---------------------------------------------------------------------------
\* C12: both fragment merges return a list strictly ascending by line_start,
\* without a repeated line_start, covering exactly the line_start values of
\* the inputs, and for a repeated line_start the fragment kept is the first
\* one in concatenation order (keyword fragments before semantic ones).
C12_AggregationSortedUniqueFirstWins ==
    (IsSome(call) /\ IsSome(ret)) =>
        /\ Val(call).fn = "combineFragments" =>
              IsAggregationOf(Val(ret), Val(call).keywordFragments
                                        \o Val(call).semanticFragments)
        /\ Val(call).fn = "mergeKeywordFragments" =>
              IsAggregationOf(Val(ret), Flatten(Val(call).fragmentArrays))

\* keyword fragments at 5 and 10 merged with semantic fragments at 10 and 2:
\* the result is 2, 5, 10 and the fragment at 10 is the keyword one
C12_Witness ==
    /\ IsSome(call) /\ IsSome(ret)
    /\ Val(call).fn = "combineFragments"
    /\ Val(call).keywordFragments = <<Frag(5, "first"), Frag(10, "first")>>
    /\ Val(call).semanticFragments = <<Frag(10, "second"), Frag(2, "second")>>
    /\ Val(ret) = <<Frag(2, "second"), Frag(5, "first"), Frag(10, "first")>>

\* the rates of the family whose marker the identifier contains
RatesFor(modelId) ==
    LET lower == ToLowerCase(modelId)
    IN IF Includes(lower, <<"opus">>) THEN <<5, 25>>
       ELSE IF Includes(lower, <<"sonnet">>) THEN <<3, 15>>
       ELSE IF Includes(lower, <<"haiku">>) THEN <<1, 5>>
       ELSE <<3, 15>>

\* ---------------------------------------------------------------------------
\* C19: calculateCost picks the rates by the family marker the identifier
\* contains (opus 5/25, sonnet 3/15, haiku 1/5 per million tokens), prefers
\* opus, then sonnet, then haiku when several match, falls back to the sonnet
\* rates when none does, and returns
\* inputTokens/1e6 * inputRate + outputTokens/1e6 * outputRate.
C19_CostByModelFamily ==
    (IsSome(call) /\ IsSome(ret) /\ Val(call).fn = "calculateCost") =>
        LET rates == RatesFor(Val(call).modelId)
            usage == Val(call).tokenUsage
        IN Val(ret) = usage.inputTokens * rates[1] + usage.outputTokens * rates[2]


\* parseValidationResponse has been applied to a response text
Parsed == IsSome(call) /\ IsSome(ret) /\ Val(call).fn = "parseValidationResponse"

\* where the response text holds a serialized object
ObjectStarts(response) ==
    {x \in DOMAIN response :
        /\ response[x] = LBrace
        /\ \/ x + 1 \in DOMAIN response /\ response[x + 1] = RBrace
           \/ /\ x + 2 \in DOMAIN response
              /\ response[x + 1][1] = "members"
              /\ response[x + 2] = RBrace}

\* the first object serialized in the response text
FirstObject(response) ==
    LET starts == ObjectStarts(response)
        first == CHOOSE x \in starts : \A y \in starts : x <= y
    IN IF response[first + 1] = RBrace THEN EmptyObject ELSE response[first + 1][2]

\* how the parser ended
OutcomeKind(outcome) ==
    IF outcome.ok THEN "ok"
    ELSE CASE outcome.message = "No JSON found in response" -> "MalformedResponse"
           [] outcome.message = "Invalid response format: missing required fields"
                -> "InvalidResponse"
           [] outcome.message \in {InvalidStatusMessage(st) : st \in {"maybe", ""}}
                -> "InvalidStatus"
           [] OTHER -> "other"

\* how the parser is said to end on a response text; an empty status or
\* explanation counts as a missing one
ClaimedKind(response) ==
    IF ObjectStarts(response) = {} THEN "MalformedResponse"
    ELSE LET x == FirstObject(response)
         IN IF \/ ~IsSome(x.status) \/ Val(x.status) = ""
               \/ ~IsSome(x.confidence) \/ Val(x.confidence).type # "number"
               \/ ~IsSome(x.explanation) \/ Val(x.explanation) = <<>>
            THEN "InvalidResponse"
            ELSE IF Val(x.status) \notin Statuses THEN "InvalidStatus"
            ELSE "ok"

\* ---------------------------------------------------------------------------
\* C15: parseValidationResponse fails with exactly one kind of error, chosen
\* in this order: no JSON object in the text gives the no-JSON error; else a
\* missing status, a missing or non-numeric confidence or a missing
\* explanation gives the missing-required-fields error; else a status outside
\* the three legal values gives the invalid-status error; else it succeeds.
C15_ParseErrorKindsInOrder ==
    Parsed => OutcomeKind(Val(ret)) = ClaimedKind(Val(call).response)

\* a response object the parser accepts when it stands alone
IsValidObject(x) == parseValidationResponse(JsonStringify(x)).ok

\* ---------------------------------------------------------------------------
\* C16: for every valid response object and every text placed before and
\* after it, parsing prefix + JSON.stringify(x) + suffix gives the same value
\* as parsing JSON.stringify(x) alone.
C16_SurroundingTextIgnored ==
    (Parsed /\ IsSome(Val(call).object) /\ IsValidObject(Val(Val(call).object))) =>
        Val(ret) = parseValidationResponse(JsonStringify(Val(Val(call).object)))

\* ---------------------------------------------------------------------------
\* C17: for every response object x with a legal status, a numeric confidence
\* and a (non-empty) explanation, parsing JSON.stringify(x) gives x with the
\* confidence clamped into [0,1]; supportingQuoteIndices, rephrase and token
\* usage are passed through unmodified.
C17_ParseStringifyRoundTrip ==
    (/\ Parsed
     /\ Val(call).prefix = <<>> /\ Val(call).suffix = <<>>
     /\ IsSome(Val(call).object)
     /\ LET x == Val(Val(call).object)
        IN /\ IsSome(x.status) /\ Val(x.status) \in Statuses
           /\ IsSome(x.confidence) /\ Val(x.confidence).type = "number"
           /\ IsSome(x.explanation) /\ Val(x.explanation) # <<>>)
    => LET x == Val(Val(call).object)
           out == Val(ret)
       IN /\ out.ok
          /\ out.status = Val(x.status)
          /\ out.confidence = Max(0, Min(100, Val(x.confidence).n))
          /\ out.explanation = Val(x.explanation)
          /\ out.supportingQuoteIndices = x.supportingQuoteIndices
          /\ out.rephrase = x.rephrase
          /\ out.tokenUsage = x.tokenUsage


\* validation i was assembled from a Bedrock reply the parser accepted
FromParsedReply(i) ==
    /\ Returned(i)
    /\ IsSome(tasks[i].response)
    /\ BedrockValidateCitation(Val(tasks[i].response)).ok

\* the object serialized in the reply of validation i
ReplyObject(i) == Val(Val(tasks[i].response).object)

\* every ValidationResult in the state: returned, stored in the array, cached
AllResults ==
    {Val(tasks[i].out) : i \in {x \in DOMAIN tasks : IsSome(tasks[x].out)}}
    \cup {Val(results[i]) : i \in {x \in DOMAIN results : IsSome(results[x])}}
    \cup {cache[k].value : k \in {x \in DOMAIN cache : x[1] = "validation"}}

\* ---------------------------------------------------------------------------
\* C13: every ValidationResult, whichever path produced it (parsed oracle
\* response, missing entry, orphan, oracle failure, cache hit), has a status
\* among supported, partial, not_supported and a confidence within [0,1]; a
\* parsed numeric confidence c becomes min(1, max(0, c)).
C13_StatusLegalConfidenceClamped ==
    /\ \A r \in AllResults :
          /\ r.status \in Statuses
          /\ r.confidence >= 0 /\ r.confidence <= 100
    /\ \A i \in DOMAIN tasks :
          FromParsedReply(i) =>
              LET c == Val(ReplyObject(i).confidence).n
              IN Val(tasks[i].out).confidence =
                     IF c > 100 THEN 100 ELSE IF c < 0 THEN 0 ELSE c

\* replies with confidence 1.5 and -3 became results with 1 and 0, and one
\* of them was served again from the cache
C13_Witness ==
    /\ docpc = "done"
    /\ \E i \in DOMAIN tasks :
          /\ FromParsedReply(i)
          /\ Val(ReplyObject(i).confidence).n \in {150, -300}
          /\ Val(tasks[i].out).confidence \in {100, 0}
    /\ \E j \in DOMAIN tasks :
          /\ Returned(j)
          /\ tasks[j].calls = {"cache.get"}
          /\ Val(tasks[j].out).confidence \in {100, 0}

QuotesAt(indices, quotes) ==
    LET InRange(x) == x >= 1 /\ x <= Len(quotes)
        kept == SelectSeq(indices, InRange)
    IN [x \in 1..Len(kept) |-> quotes[kept[x]]]

\* ---------------------------------------------------------------------------
\* C18: the supportingQuotes of a resolved ValidationResult are the quotes
\* quotes[i-1] for the returned 1-based indices i with 1 <= i <= number of
\* quotes, in the order returned; indices that are 0, negative or beyond the
\* list are dropped and never turn the result into an error result.
C18_SupportingQuotesInRangeInOrder ==
    \A i \in DOMAIN tasks :
        FromParsedReply(i) =>
            LET indices == ReplyObject(i).supportingQuoteIndices
                out == Val(tasks[i].out)
            IN /\ out.status = Val(ReplyObject(i).status)
               /\ out.explanation = Val(ReplyObject(i).explanation)
               /\ IF IsSome(indices)
                  THEN out.supportingQuotes =
                           Some(QuotesAt(Val(indices), CorpusQuotes(citations[i].key)))
                  ELSE out.supportingQuotes = None

\* indices 0, 2, 3, 1 over two quotes gave the second quote, then the first
C18_Witness ==
    \E i \in DOMAIN tasks :
        /\ FromParsedReply(i)
        /\ ReplyObject(i).supportingQuoteIndices = Some(<<0, 2, 3, 1>>)
        /\ Len(CorpusQuotes(citations[i].key)) = 2
        /\ Val(tasks[i].out).status = "partial"
        /\ Val(tasks[i].out).supportingQuotes =
               Some(<<CorpusQuotes(citations[i].key)[2],
                      CorpusQuotes(citations[i].key)[1]>>)

\* ---------------------------------------------------------------------------
\* C20: when the oracle call succeeds and the oracle reports token usage, the
\* ValidationResult carries that token usage and a costUsd computed from it
\* and the configured model id.
C20_TokenUsageAndCostCarried ==
    \A i \in DOMAIN tasks :
        (FromParsedReply(i) /\ IsSome(Val(tasks[i].response).usage)) =>
            LET usage == Val(Val(tasks[i].response).usage)
                out == Val(tasks[i].out)
            IN /\ out.tokenUsage = Some(usage)
               /\ out.costUsd = Some(calculateCost(usage, ModelId))


\* parseCitations has been applied to a document text
CitationsParsed == IsSome(call) /\ IsSome(ret) /\ Val(call).fn = "parseCitations"

\* ---------------------------------------------------------------------------
\* C21: no @key token is reported by both passes of parseCitations: a token
\* inside a bracket span that holds a key is reported with type bracket and
\* never also as an inline citation.
C21_NoTokenReportedTwice ==
    CitationsParsed =>
        LET out == Val(ret)
        IN \A b \in DOMAIN out, n \in DOMAIN out :
              (out[b].type = "bracket" /\ out[n].type = "inline") =>
                  ~(/\ out[b].range.start <= out[n].range.start
                    /\ out[n].range.end <= out[b].range.end)


\* the positions of the "@" of the keys that stand within a bracket span
KeysWithin(text, range) ==
    {p \in (range.start + 2)..(range.end - 2) : KeyStartsAt(text, p)}

\* the letters that follow the "@" at p, up to the first character that
\* cannot continue a key
KeyAt(text, p) ==
    LET stops == {e \in (p + 1)..(Len(text) + 1) :
                     e > Len(text) \/ ~IsKeyChar(text[e])}
        stop == CHOOSE e \in stops : \A d \in stops : e <= d
    IN SubSeq(text, p + 1, stop - 1)

\* ---------------------------------------------------------------------------
\* C22: the output of parseCitations is, first, for each bracket span in
\* document order, one citation of type bracket per @key of the bracket from
\* left to right, the citations of one bracket sharing range, fullText and
\* pageRef; then all the inline citations in document order.
C22_BracketsThenInlineInOrder ==
    CitationsParsed =>
        LET text == Val(call).text
            out == Val(ret)
            brackets == {x \in DOMAIN out : out[x].type = "bracket"}
            inlines == {x \in DOMAIN out : out[x].type = "inline"}
        IN /\ brackets \cup inlines = DOMAIN out
           /\ \A x \in brackets, y \in inlines : x < y
           /\ \A x \in brackets, y \in brackets :
                 x < y =>
                     \/ /\ out[x].range = out[y].range
                        /\ out[x].fullText = out[y].fullText
                        /\ out[x].pageRef = out[y].pageRef
                     \/ out[x].range.end <= out[y].range.start
           /\ \A x \in brackets :
                 LET range == out[x].range
                     same == {y \in brackets : out[y].range = range}
                     keys == KeysWithin(text, range)
                     nth == Cardinality({y \in same : y < x})
                     p == CHOOSE q \in keys : Cardinality({o \in keys : o < q}) = nth
                 IN /\ out[x].fullText = SubSeq(text, range.start + 1, range.end)
                    /\ text[range.start + 1] = "[" /\ text[range.end] = "]"
                    /\ Cardinality(same) = Cardinality(keys)
                    /\ out[x].key = KeyAt(text, p)
           /\ \A x \in inlines, y \in inlines :
                 x < y => out[x].range.end <= out[y].range.start
           /\ \A x \in inlines :
                 /\ KeyStartsAt(text, out[x].range.start + 1)
                 /\ out[x].key = KeyAt(text, out[x].range.start + 1)
                 /\ out[x].fullText = SubSeq(text, out[x].range.start + 1, out[x].range.end)

\* "@k[@k]": the bracket citation comes first although the inline one stands
\* first in the document
C22_Witness ==
    /\ CitationsParsed
    /\ Val(call).text = <<"@", "k", "[", "@", "k", "]">>
    /\ Len(Val(ret)) = 2
    /\ Val(ret)[1].type = "bracket" /\ Val(ret)[1].range = [start |-> 2, end |-> 6]
    /\ Val(ret)[2].type = "inline" /\ Val(ret)[2].range = [start |-> 0, end |-> 2]


ParagraphsParsed == IsSome(call) /\ IsSome(ret) /\ Val(call).fn = "parseParagraphs"
Associated ==
    IsSome(call) /\ IsSome(ret) /\ Val(call).fn = "associateCitationsWithParagraphs"

\* line l (counted from 0) belongs to the front matter: the document opens
\* with "---" and no line before l has closed it
FrontMatterLine(lines, l) ==
    /\ Trim(lines[1]) = "---"
    /\ \A m \in 1..(l - 1) : Trim(lines[m + 1]) \notin {"---", "..."}

FenceLine(lines, l) ==
    ~FrontMatterLine(lines, l) /\ StartsWithFence(Trim(lines[l + 1]))

\* an odd number of fence lines stands before l
InsideFence(lines, l) ==
    Cardinality({m \in 0..(l - 1) : FenceLine(lines, m)}) % 2 = 1

ProseLine(lines, l) ==
    /\ ~FrontMatterLine(lines, l)
    /\ ~FenceLine(lines, l)
    /\ ~InsideFence(lines, l)
    /\ ~StartsWithHash(Trim(lines[l + 1]))
    /\ Trim(lines[l + 1]) # ""

\* ---------------------------------------------------------------------------
\* C23: no paragraph of parseParagraphs contains a front-matter line, a fence
\* line, a line inside a fenced block, a heading line or a blank line, so
\* prose on the two sides of a fenced block is never in one paragraph; the
\* lines A, blank, B, fence, code, fence, C yield exactly A, B and C.
C23_ParagraphsHoldProseOnly ==
    ParagraphsParsed =>
        LET lines == Val(call).lines
            out == Val(ret)
        IN /\ \A x \in DOMAIN out :
                 /\ out[x].range.start.line >= 0
                 /\ out[x].range.end.line < Len(lines)
                 /\ \A l \in out[x].range.start.line..out[x].range.end.line :
                       ProseLine(lines, l)
                 /\ \A t \in Range(out[x].text) :
                       t = "\n" \/ (Trim(t) # "" /\ ~StartsWithHash(Trim(t))
                                    /\ ~StartsWithFence(Trim(t)))
           /\ lines = FencedExample =>
                 /\ [x \in DOMAIN out |-> out[x].text] = <<<<"A">>, <<"Bb">>, <<"Bb">>>>
                 /\ [x \in DOMAIN out |-> out[x].range.start.line] = <<0, 2, 6>>

C23_Witness ==
    /\ ParagraphsParsed
    /\ Val(call).lines = FencedExample
    /\ Len(Val(ret)) = 3
    /\ Val(ret)[2].text = <<"Bb">>
    /\ Val(ret)[3].range = [start |-> Position(6, 0), end |-> Position(6, 2)]

\* ---------------------------------------------------------------------------
\* C24: each paragraph of parseParagraphs covers a contiguous run of lines,
\* from column 0 of its first line to the end of its last, and its text is
\* those lines joined; the ranges are disjoint and increase through the
\* document, so associateCitationsWithParagraphs attaches a citation to at
\* most one paragraph.
C24_RangesDisjointOneParagraphPerCitation ==
    /\ ParagraphsParsed =>
          LET lines == Val(call).lines
              out == Val(ret)
          IN /\ \A x \in DOMAIN out :
                   LET first == out[x].range.start.line
                       last == out[x].range.end.line
                   IN /\ 0 <= first /\ first <= last /\ last < Len(lines)
                      /\ out[x].range.start.character = 0
                      /\ out[x].range.end.character = Length(lines[last + 1])
                      /\ out[x].text = Join(SubSeq(lines, first + 1, last + 1))
             /\ \A x \in DOMAIN out, y \in DOMAIN out :
                   x < y => out[x].range.end.line < out[y].range.start.line
    /\ Associated =>
          LET out == Val(ret)
              cs == Val(call).citations
          IN /\ \A c \in Range(cs) :
                   Cardinality({x \in DOMAIN out : c \in Range(out[x].citations)}) <= 1
             /\ \A x \in DOMAIN out :
                   \A c \in Range(out[x].citations) :
                      c \in Range(cs) /\ Contains(out[x].range, c.range)

\* two paragraphs and a citation on the second one's line: only the second
\* paragraph holds it
C24_Witness ==
    /\ Associated
    /\ Val(call).lines = <<"A", "", "Bb">>
    /\ Val(call).citations[1].range = [start |-> Position(2, 0), end |-> Position(2, 2)]
    /\ Len(Val(ret)) = 2
    /\ Val(ret)[1].citations = <<>>
    /\ Val(ret)[2].citations = Val(call).citations


\* the last call made on the cache service was fn
LastCall(fn) == IsSome(call) /\ IsSome(ret) /\ Val(call).fn = fn

\* the most recent set of the key is still in the map and had not expired at t
Live(key, t) ==
    /\ key \in DOMAIN lastSet
    /\ IsSome(lastSet[key])
    /\ ~Val(lastSet[key]).removed
    /\ t <= Val(lastSet[key]).at + Val(lastSet[key]).ttl

\* ---------------------------------------------------------------------------
\* C25: get(k) at time t returns the value of the most recent set(k, v), made
\* at time s, exactly when t <= s + TTL, the TTL being the one in force at
\* that set, and the entry was not deleted or cleared since; otherwise it
\* returns undefined, and after an expiry the entry is gone and has(k) is
\* false.
C25_GetWithinTtlOfLastSet ==
    /\ LastCall("get") =>
          LET key == Val(call).key
          IN /\ Val(ret) = IF Live(key, Val(call).at)
                           THEN Some(Val(lastSet[key]).value)
                           ELSE None
             /\ ~Live(key, Val(call).at) => key \notin DOMAIN cache
             /\ ~Live(key, Val(call).at) => ~has(cache, now, key)
    /\ LastCall("has") => Val(ret) = Live(Val(call).key, Val(call).at)

\* a value set at 0 under a TTL of one second is still returned at 1000,
\* although the TTL has been changed to 0 since
C25_Witness ==
    /\ LastCall("get")
    /\ Val(call).key = "a" /\ Val(call).at = 1000
    /\ IsSome(lastSet["a"])
    /\ Val(lastSet["a"]).at = 0 /\ Val(lastSet["a"]).ttl = 1000
    /\ ttlMs = 0
    /\ Val(ret) = Some(Val(lastSet["a"]).value)

\* ---------------------------------------------------------------------------
\* C26: getCacheService returns the same instance until resetCacheService;
\* called with a TTL it changes the TTL used by later set calls and leaves
\* the entries, their values and their expiry times as they are.
C26_SingletonTtlForLaterSetsOnly ==
    [][ /\ ( /\ call' # call /\ IsSome(call') /\ Val(call').fn = "getCacheService"
             /\ IsSome(cacheInstance.instance) )
           => /\ Val(ret') = cacheInstance.instance
              /\ cacheInstance' = cacheInstance
              /\ cache' = cache
              /\ ttlMs' = IF IsSome(Val(call').ttlSeconds)
                          THEN Val(Val(call').ttlSeconds) * 1000
                          ELSE ttlMs
        /\ ( /\ call' # call /\ IsSome(call') /\ Val(call').fn = "set" )
           => /\ cache'[Val(call').key] = [value |-> Val(call').value,
                                           expiresAt |-> now + ttlMs]
              /\ \A k \in DOMAIN cache \ {Val(call').key} :
                    k \in DOMAIN cache' /\ cache'[k] = cache[k]
      ]_vars

\* an entry set under a TTL of 0 keeps its expiry time after the singleton
\* was asked for again with a TTL of one second
C26_Witness ==
    /\ LastCall("getCacheService")
    /\ Val(call).ttlSeconds = Some(1)
    /\ Val(ret) = Some(1) /\ cacheInstance.instance = Some(1)
    /\ "a" \in DOMAIN cache /\ cache["a"].expiresAt = 0
    /\ ttlMs = 1000


\* validateCitation is called for citation i in this step
Starts(i) == tasks[i].pc = "idle" /\ tasks'[i].pc # "idle"

FragmentSources(request) == {request.keywordFragments[x].src : x \in DOMAIN request.keywordFragments}

\* ---------------------------------------------------------------------------
\* C29: once the entry is found, a failure of the keyword extraction, of the
\* file read, of the keyword-fragment search or of the semantic search never
\* propagates: the validation goes on with empty keyword lists, with no file
\* content or with empty fragment lists, and the oracle is still invoked.
C29_EvidenceFailuresDegrade ==
    \A i \in DOMAIN tasks :
        /\ tasks[i].pc # "rejected"
        /\ (tasks[i].pc \in {"gather2", "oracle"} /\ "extractKeywords" \in faults)
           => /\ "queryEntryWithKeywords" \notin tasks[i].calls
              /\ tasks[i].keywordFragments = <<>>
        /\ tasks[i].pc = "oracle" =>
              LET request == Val(tasks[i].request)
              IN /\ "readFile" \in faults => request.fileContent = None
                 /\ "query" \in faults =>
                       FragmentSources(request) \cap {"learning", "leren"} = {}
                 /\ "semantic" \in faults => "semantic" \notin FragmentSources(request)
        /\ (tasks[i].pc = "done" /\ "getPaperWithQuotes" \in tasks[i].calls
            /\ IsSome(Val(tasks[i].out).paper))
           => "oracle" \in tasks[i].calls

\* everything fails, the file content was asked for, and the oracle has
\* answered a request without file content and without fragments
C29_Witness ==
    /\ faults = AllFaults
    /\ Len(citations) = 1 /\ IsSome(citations[1].pageRef)
    /\ tasks[1].pc = "done"
    /\ "getFileContent" \in tasks[1].calls
    /\ "oracle" \in tasks[1].calls
    /\ IsSome(tasks[1].oracleOutcome) /\ Val(tasks[1].oracleOutcome).ok


\* citations i and j are validated under the same cache key
SharesCacheKey(i, j) ==
    /\ i # j
    /\ IsSome(FindParagraph(paragraphs, citations[i]))
    /\ IsSome(FindParagraph(paragraphs, citations[j]))
    /\ ValidationKey(citations[i], ParagraphOf(i)) = ValidationKey(citations[j], ParagraphOf(j))

\* ---------------------------------------------------------------------------
\* C30: validations in flight are not deduplicated: two validateCitation
\* calls with the same cache key that run concurrently on a cold cache both
\* pass the cache check, both invoke the oracle and both write the cache, the
\* later write replacing the earlier one.
C30_NoInFlightDeduplication ==
    /\ [](mode = "all" =>
            \A i \in DOMAIN tasks, j \in DOMAIN tasks :
               SharesCacheKey(i, j) =>
                  /\ tasks[i].pc # "idle" => "getPaperWithQuotes" \in tasks[i].calls
                  /\ (tasks[i].pc = "done" /\ IsSome(Val(tasks[i].out).paper))
                     => "oracle" \in tasks[i].calls
                  /\ (tasks[i].pc = "done" /\ IsSome(tasks[i].oracleOutcome)
                      /\ Val(tasks[i].oracleOutcome).ok)
                     => "cache.set" \in tasks[i].calls)
    /\ [][ \A i \in DOMAIN tasks :
              (tasks[i].pc = "oracle" /\ tasks'[i].pc = "done"
               /\ "cache.set" \in tasks'[i].calls)
              => LET key == ValidationKey(citations[i], ParagraphOf(i))
                 IN /\ key \in DOMAIN cache'
                    /\ cache'[key].value = Val(tasks'[i].out)
         ]_vars

\* two validations of the same claim ran side by side, each got its own
\* verdict from the oracle and each wrote it; the cache holds one of the two
C30_Witness ==
    /\ mode = "all"
    /\ Len(citations) = 2 /\ SharesCacheKey(1, 2)
    /\ tasks[1].pc = "done" /\ tasks[2].pc = "done"
    /\ {"oracle", "cache.set"} \subseteq tasks[1].calls
    /\ {"oracle", "cache.set"} \subseteq tasks[2].calls
    /\ tasks[1].out # tasks[2].out
    /\ cache[ValidationKey(citations[1], ParagraphOf(1))].value = Val(tasks[1].out)


\* what resolveModelId yields for a model id
Resolved(modelId) == IF IsInferenceProfile(modelId) THEN Arn(modelId) ELSE modelId

\* ---------------------------------------------------------------------------
\* C27: reconfiguring the shared oracle adapter affects later calls only: a
\* validation in flight when the singleton is given another model id still
\* invokes the oracle with the model id of its own configuration snapshot,
\* the one recorded as modelId in its result.
C27_InFlightKeepsOwnModel ==
    \A i \in DOMAIN tasks :
        /\ IsSome(tasks[i].invoked)
           => Val(tasks[i].invoked) = Resolved(Val(tasks[i].model))
        /\ (tasks[i].pc = "done" /\ "oracle" \in tasks[i].calls)
           => Val(tasks[i].out).modelId = tasks[i].model


\* the phase of a validateCitation call: Pending, EvidenceGathering (both
\* rounds of fetches), Prompting, terminal
Phase(pc) ==
    CASE pc = "idle" -> 0
      [] pc \in {"gather1", "gather2"} -> 1
      [] pc = "oracle" -> 2
      [] OTHER -> 3

SecondaryFetches == {"getFileContent", "queryEntryWithKeywords", "semanticQueryEntry"}

\* ---------------------------------------------------------------------------
\* C31: within one validateCitation call the phases only advance: the
\* secondary fetches start only once the entry+quotes fetch and the keyword
\* extraction have both completed, the oracle is invoked only once every
\* secondary fetch has completed, and the call produces exactly one terminal
\* result, which never changes afterwards.
C31_PhasesOnlyAdvance ==
    /\ [](\A i \in DOMAIN tasks :
             /\ tasks[i].pc \in {"idle", "gather1", "gather2", "oracle", "done", "resolved"}
             /\ IsSome(tasks[i].out) <=> tasks[i].pc \in {"done", "resolved"})
    /\ [][ \A i \in DOMAIN tasks :
              LET a == tasks[i]
                  b == tasks'[i]
              IN /\ Phase(b.pc) >= Phase(a.pc)
                 /\ a.pc = "gather2" => b.pc # "gather1"
                 /\ (b.calls \cap SecondaryFetches) # (a.calls \cap SecondaryFetches)
                    => /\ a.pc = "gather1" /\ a.pq = "done" /\ a.kw = "done"
                       /\ a.calls \cap SecondaryFetches = {}
                       /\ b.pc = "gather2"
                 /\ ("oracle" \in b.calls /\ "oracle" \notin a.calls)
                    => /\ a.pc = "gather2"
                       /\ a.file \in {"skipped", "done"}
                       /\ a.kwf \in {"skipped", "done"}
                       /\ a.sem = "done"
                       /\ b.pc = "oracle"
                 /\ a.pc = "done" => b = a
         ]_vars

\* two validations in flight together went through every phase, each with
\* all three secondary fetches, and each has its verdict
C31_Witness ==
    /\ mode = "all" /\ Len(citations) = 2
    /\ \A i \in {1, 2} :
          /\ tasks[i].pc = "done"
          /\ SecondaryFetches \cup {"oracle"} \subseteq tasks[i].calls


\* ---------------------------------------------------------------------------
\* C32: if every external call eventually returns or fails, every
\* validateCitation call eventually returns a result and the document
\* validation eventually resolves: from some moment on the document
\* validation has resolved and every citation has its result.
C32_EveryValidationReturns ==
    <>[](/\ docpc = "done"
         /\ \A i \in DOMAIN tasks :
                tasks[i].pc \in {"done", "resolved"} /\ IsSome(tasks[i].out))

\* validateDocument has resolved although every evidence collaborator failed
\* and the oracle call of the first citation failed too
C32_Witness ==
    /\ mode = "all" /\ docpc = "done" /\ faults = AllFaults
    /\ Len(citations) = 2
    /\ tasks[1].pc = "done" /\ "oracle" \in tasks[1].calls
    /\ IsSome(tasks[1].oracleOutcome) /\ ~Val(tasks[1].oracleOutcome).ok
    /\ tasks[2].pc = "resolved"


\* the counters of a sequence of progress reports
Counters(rs) == [k \in DOMAIN rs |-> [completed |-> rs[k].completed, total |-> rs[k].total]]

\* ---------------------------------------------------------------------------
\* C33: validateDocumentWithConcurrencyLimit has the semantics of
\* validateDocument: for the same citations and paragraphs, collaborators
\* that answer by their arguments and an initially empty cache, it returns
\* an equal result array and reports progress as many times, with the same
\* counters.
C33_BothDriversAgree ==
    (mode = "bounded" /\ docpc = "done" /\ IsSome(ret))
    => /\ results = Val(ret).results
       /\ Counters(reports) = Counters(Val(ret).reports)


AdapterLookups == {"getPaper", "getQuotes", "getFileContent", "queryEntry",
                   "semanticQueryEntry"}

\* ---------------------------------------------------------------------------
\* C34: every adapter lookup is a read-through cache: when a lookup is made
\* while the cache holds a value stored for its key that has not expired, the
\* lookup returns that value and makes no external call.
C34_LookupsAreReadThrough ==
    [][ (call' # call /\ IsSome(call') /\ Val(call').fn \in AdapterLookups)
        => LET key == Val(call').key
           IN (key \in DOMAIN cache /\ now <= cache[key].expiresAt)
              => /\ Val(ret').value = Some(cache[key].value)
                 /\ Val(ret').external = 0
      ]_vars


\* ---------------------------------------------------------------------------
\* C35: validateDocumentWithConcurrencyLimit terminates for every integer
\* concurrencyLimit, zero and negative values included: the batch loop makes
\* finitely many passes, at most one per citation, and every pass but the
\* last leaves the loop variable closer to the number of citations.
C35_BatchLoopIsFinite ==
    /\ [](Len(batches) <= Len(citations))
    /\ [][ (batches' # batches /\ batches # <<>>) => batchStart' > batchStart ]_vars


\* ---------------------------------------------------------------------------
\* C36: the validation cache is written only with results assembled from a
\* successfully parsed oracle response.  Entry-missing and oracle-failure
\* results are never stored (orphans never reach validateCitation), so a
\* later validateCitation for the same key and paragraph, as long as no
\* verdict has been stored for them, looks the entry up again and, once the
\* entry is found, invokes the oracle again.
C36_OnlyVerdictsAreCached ==
    /\ \A key \in DOMAIN cache :
          key[1] = "validation"
          => \E i \in DOMAIN tasks :
                /\ ~IsOrphan(i)
                /\ key = ValidationKey(citations[i], ParagraphOf(i))
                /\ Returned(i) /\ "cache.set" \in tasks[i].calls
                /\ IsSome(tasks[i].oracleOutcome) /\ Val(tasks[i].oracleOutcome).ok
                /\ cache[key].value = Val(tasks[i].out)
    /\ \A i \in DOMAIN tasks :
          (Returned(i) /\ (EntryMissing(i) \/ OracleFailed(i)))
          => /\ "cache.set" \notin tasks[i].calls
             /\ ValidationKey(citations[i], ParagraphOf(i)) \in DOMAIN cache
                => cache[ValidationKey(citations[i], ParagraphOf(i))].value
                      # Val(tasks[i].out)
    /\ \A j \in DOMAIN tasks :
          (/\ ~IsOrphan(j) /\ tasks[j].pc # "idle"
           /\ \E i \in 1..(j - 1) : ~IsOrphan(i) /\ SameClaim(i, j)
           /\ \A h \in 1..(j - 1) :
                 (~IsOrphan(h) /\ SameClaim(h, j)) => "cache.set" \notin tasks[h].calls)
          => /\ "getPaperWithQuotes" \in tasks[j].calls
             /\ (Returned(j) /\ ~EntryMissing(j)) => "oracle" \in tasks[j].calls

\* the first validation of a claim ended in an oracle failure; the second,
\* for the same key and paragraph, went to the oracle again and its verdict
\* is the one in the cache
C36_Witness ==
    /\ Len(citations) = 2
    /\ ~IsOrphan(1) /\ ~IsOrphan(2) /\ SameClaim(1, 2)
    /\ Returned(1) /\ OracleFailed(1)
    /\ Returned(2) /\ {"oracle", "cache.set"} \subseteq tasks[2].calls
    /\ cache[ValidationKey(citations[2], ParagraphOf(2))].value = Val(tasks[2].out)


\* ---------------------------------------------------------------------------
\* C37: the result returned by validateCitation(c, p) carries c itself as its
\* citation, also when the result comes from the validation cache; hence the
\* result array of a document validation has results[i].citation =
\* citations[i] for every i, repeated occurrences of one key in one paragraph
\* included.
C37_ResultCarriesItsCitation ==
    /\ \A i \in DOMAIN tasks :
          (~IsOrphan(i) /\ Returned(i))
          => Val(tasks[i].out).citation = citations[i]
    /\ docpc = "done"
       => \A i \in DOMAIN results :
             IsSome(results[i]) /\ Val(results[i]).citation = citations[i]


\* Two paragraphs with different texts and the same hashText: "Aa" and "BB"
\* (31 * 65 + 97 = 31 * 66 + 66), cited one after the other.
TextBB == <<66, 66>>      \* "BB"
CollidingParagraphs == << MkParagraph(TextAa, 0, 9), MkParagraph(TextBB, 20, 29) >>

CollideCitations ==
    { InFirst("k1", None), InSecond("k1", None), InSecond("k2", None),
      Orphan("k1", None) }

InitCollide ==
    /\ mode = "bounded"
    /\ concurrencyLimit = 1
    /\ citations \in SeqsUpTo(CollideCitations, MaxCollideCitations)
    /\ progress \in BOOLEAN
    /\ ttlMs = 1
    /\ DefaultSettings
    /\ corpus \in {CorpusBook, CorpusPaperMedia}
    /\ paragraphs = CollidingParagraphs
    /\ docpc = "start"
    /\ batchStart = 0
    /\ batches = <<>>
    /\ tasks = [i \in 1..Len(citations) |-> IdleTask]
    /\ results = [i \in 1..Len(citations) |-> None]
    /\ completed = 0
    /\ reports = <<>>
    /\ cache = EmptyCache
    /\ now = 0
    /\ lookups = <<>>
    /\ call = None
    /\ ret = None

SpecCollide == InitCollide /\ [][NextSeq]_vars

\* ---------------------------------------------------------------------------
\* C38: validateCitation(c, p) serves a cached verdict only if the verdict
\* was computed for a paragraph whose text equals p.text: the paragraphText
\* of every result it returns is the text of the paragraph it was called
\* with.
C38_VerdictIsForThisParagraph ==
    \A i \in DOMAIN tasks :
        (~IsOrphan(i) /\ Returned(i))
        => Val(tasks[i].out).paragraphText = ParagraphOf(i).text


\* One bracket citation: every interior up to a length over keys, digits,
\* separators and page references.
InteriorChars == {"@", "k", "page", "7", ";", "p42"}

BracketCalls ==
    [fn : {"parseCitations"},
     text : {<<"[">> \o s \o <<"]">> : s \in SeqsUpTo(InteriorChars, MaxInteriorLen)}]

InitPageRef ==
    /\ NoDocument
    /\ cache = EmptyCache
    /\ corpus = CorpusBook
    /\ lookups = <<>>
    /\ call \in {Some(c) : c \in BracketCalls}
    /\ ret = None

SpecPageRef == InitPageRef /\ [][ParseCitationsCall]_vars

\* the positions of s that lie within a citation key, its "@" included
InKey(s, p) ==
    \E q \in 1..p : KeyStartsAt(s, q) /\ p <= KeyEnd(s, q + 1, Len(s))

\* a page locator starts at p: "p.", "pp.", "page" or "pages" followed by a
\* number
LocatorAt(s, p) ==
    \/ s[p] = "p42"
    \/ s[p] = "page" /\ p + 1 \in DOMAIN s /\ s[p + 1] = "7"

\* the number of the locator that starts at p
LocatorNumber(s, p) ==
    IF s[p] = "p42" THEN "42" ELSE Digits(DigitRun(SubSeq(s, p + 1, Len(s))))

\* ---------------------------------------------------------------------------
\* C39: the citations of a bracket whose interior holds only keys and
\* separators have no pageRef, whatever the keys are; pageRef is set only
\* when the interior holds a page locator outside the keys, and then it is
\* the number of the first such locator.
C39_PageRefOnlyFromLocator ==
    CitationsParsed =>
        LET text == Val(call).text
            s == SubSeq(text, 2, Len(text) - 1)
            out == Val(ret)
            locators == {p \in DOMAIN s : LocatorAt(s, p) /\ ~InKey(s, p)}
            first == CHOOSE p \in locators : \A q \in locators : p <= q
        IN \A x \in DOMAIN out :
              out[x].type = "bracket"
              => out[x].pageRef = IF locators = {} THEN None
                                  ELSE Some(LocatorNumber(s, first))


\* ---------------------------------------------------------------------------
\* C40: every @key token of the document yields at least one citation: a
\* token that isCitationInsideBracket keeps out of the inline pass lies
\* within a bracket match of the first pass, so it is reported as an inline
\* citation at its own offset or as a bracket citation of its key whose
\* range holds it.
C40_NoTokenDropped ==
    CitationsParsed =>
        LET text == Val(call).text
            out == Val(ret)
        IN \A p \in DOMAIN text :
              KeyStartsAt(text, p)
              => \E x \in DOMAIN out :
                    /\ out[x].key = KeyAt(text, p)
                    /\ \/ out[x].type = "inline" /\ out[x].range.start = p - 1
                       \/ /\ out[x].type = "bracket"
                          /\ out[x].range.start < p - 1 /\ p < out[x].range.end

====
